---- MODULE Spec2Model ----
(***************************************************************************)
(* FHEVMContract: the confidential balance ledger, the plaintext fallback  *)
(* ledger and the Higher/Lower game state machine, as one state machine.   *)
(* Every external function of the contract is one action; a transaction    *)
(* that reverts leaves the contract storage as it was and only records     *)
(* its outcome.  Blocks are produced by the environment (NewBlock).        *)
(*                                                                         *)
(* Words are narrower than in the EVM so that they can be enumerated: an   *)
(* euint32 has EuintBits bits, a keccak256 digest HashBits bits, and the   *)
(* divisor of fhevmDeposit (1e14 wei) is FhevmScale.  uint256 amounts are  *)
(* natural numbers; no log of the model comes near 2^256.                  *)
(***************************************************************************)
EXTENDS Integers, Sequences, FiniteSets, TLC

(***************************************************************************)
(* Bounds of the model.                                                    *)
(***************************************************************************)
\* number of transactions in the log
MaxTx == 2
\* number of transactions in a log of game calls only
MaxGameTx == 4
\* number of blocks produced
MaxBlock == 2
\* gap between the timestamps of two consecutive blocks
BlockTime == 1
\* bits of an euint32 in the model (32 in the library)
EuintBits == 3
\* bits of a keccak256 digest in the model (256 in the EVM)
HashBits == 7

(***************************************************************************)
(* Principals and addresses.                                               *)
(***************************************************************************)
Principals == {1, 2, 3}
\* the accounts that send transactions; the third account only receives
Callers == {1, 2}
\* address(this), the engine itself
This == 99
\* address(0), the player of a record that was never started
ZeroAddress == 0


(***************************************************************************)
(* The arguments of the calls and the environment of a block.              *)
(***************************************************************************)
\* msg.value of a payable call, in wei
Payments == {0, 1, 2}
\* the _wager of simpleStartGame, in wei
Wagers == {0, 1, 2}
\* the plaintext behind an externalEuint32 argument
Plaintexts == {0, 1}
\* the prevrandao values a block can carry
Randaos == {0, 1}
EuintMod == 2 ^ EuintBits
HashSpace == 2 ^ HashBits

(***************************************************************************)
(* Revert reasons (the require strings of the contract) and the name the   *)
(* specification gives to each.                                            *)
(***************************************************************************)
OK == "ok"
ZeroValueDeposit == "Must send ETH with deposit"
SelfTransferNotAllowed == "Cannot transfer to self"
NoDepositOnRecord == "No balance available"
MustHaveDepositFirst == "Must have deposit first"
InsufficientBalance == "Insufficient balance"
GameAlreadyActive == "Game already in progress"
NoActiveGame == "No active game"
ProofVerificationFailed == "ProofVerificationFailed"

(***************************************************************************)
(* keccak256(abi.encodePacked(...)): a deterministic digest of the packed  *)
(* words, folded word by word into HashBits bits.                          *)
(***************************************************************************)
RECURSIVE keccakFrom(_, _)
keccakFrom(h, words) ==
    IF words = << >> THEN h
    ELSE keccakFrom((h * 31 + Head(words) * 7 + 11) % HashSpace, Tail(words))

keccak256(words) == keccakFrom(5, words)

\* the draw without the + 1
cardOf_NoOffset(digest) == digest % 13

\* uint8((uint256(digest) % 13) + 1)
cardOf(digest) == (digest % 13) + 1

\* the card drawn by startGame
startCard(ts, randao, sender, number) ==
    cardOf(keccak256(<<ts, randao, sender, number>>))

\* the card drawn by makeGuess
guessCard(ts, randao, sender, secret, number) ==
    cardOf(keccak256(<<ts, randao, sender, secret, number>>))

\* the card drawn by simpleStartGame
simpleStartCard(ts, randao, sender) ==
    cardOf(keccak256(<<ts, randao, sender>>))

\* the card drawn by simpleMakeGuess
simpleGuessCard(ts, randao, sender, secret) ==
    cardOf(keccak256(<<ts, randao, sender, secret>>))

\* gameSecret: keccak256(abi.encodePacked(block.timestamp, msg.sender, currentCard))
secretOf(ts, sender, card) == keccak256(<<ts, sender, card>>)

\* the comparison with >= and <=: a tie wins
guessCorrect_TieWins(isHigher, newCard, currentCard) ==
    IF isHigher THEN newCard >= currentCard ELSE newCard =< currentCard

\* correct = isHigher ? newCard > currentCard : newCard < currentCard
guessCorrect(isHigher, newCard, currentCard) ==
    IF isHigher THEN newCard > currentCard ELSE newCard < currentCard

\* the multiplier of the confidential path (2) used on the plaintext path
simpleWinnings_Double(wager) == wager * 2

\* simpleMakeGuess: winnings = (game.wager * 15) / 10
simpleWinnings(wager) == (wager * 15) \div 10

(***************************************************************************)
(* State.                                                                  *)
(***************************************************************************)
VARIABLES
    blockTimestamp,     \* block.timestamp
    blockPrevrandao,    \* block.prevrandao
    blockNumber,        \* block.number
    encryptedBalances,  \* address -> euint32 handle
    encryptedScores,    \* address -> euint32 handle
    encryptedFlags,     \* address -> ebool handle
    hasDeposit,         \* address -> bool
    lastActivity,       \* address -> uint256
    simpleBalances,     \* address -> uint256
    games,              \* address -> Game
    simpleGames,        \* address -> SimpleGame
    allowed,            \* the ACL: pairs <<handle id, account>>
    nextHandle,         \* id of the next ciphertext handle produced
    txCount,            \* number of transactions executed so far
    outcome,            \* the last transaction: call, revert reason, returns
    previous,           \* the transaction before the last one (SpecLedger)
    trial,              \* two calls tried in both orders (SpecOrder)
    isLoading,          \* useGameContract: a call of the hook is running
    error,              \* useGameContract: the message shown, or none
    contractBalance,    \* useGameContract: the balance shown
    calls,              \* useGameContract: deposit and makeGuess in flight
    draws,              \* the last two draws of each game (SpecInstant)
    opened,             \* the plaintext balance a game started at (SpecInstant)
    wallet,             \* useWallet: the state of the hook
    attempts,           \* useWallet: the calls of connectWallet (SpecWallet)
    component,          \* HigherLowerGame: the state of the component
    handlers            \* HigherLowerGame: the calls in flight (SpecComponent)

blockVars == <<blockTimestamp, blockPrevrandao, blockNumber>>

\* the state of the hook in the browser
clientVars == <<isLoading, error, contractBalance, calls>>

\* the state of the wallet hook and of the game component
uiVars == <<wallet, attempts, component, handlers>>

\* the storage of the contract and the ACL
storage == <<encryptedBalances, encryptedScores, encryptedFlags, hasDeposit,
             lastActivity, simpleBalances, games, simpleGames, allowed,
             nextHandle>>

vars == <<blockTimestamp, blockPrevrandao, blockNumber, encryptedBalances,
          encryptedScores, encryptedFlags, hasDeposit, lastActivity,
          simpleBalances, games, simpleGames, allowed, nextHandle, txCount,
          outcome, previous, trial, isLoading, error, contractBalance,
          calls, draws, opened, wallet, attempts, component, handlers>>

(***************************************************************************)
(* Ciphertext handles.  A handle is an opaque id together with the         *)
(* plaintext it encrypts; the uninitialized handle has id 0 and is read    *)
(* as an encryption of zero (false) by the arithmetic.                     *)
(***************************************************************************)
NoHandle == [id |-> 0, v |-> 0]
NoFlag == [id |-> 0, v |-> FALSE]

\* FHE.asEuint32 / FHE.asEbool / FHE.fromExternal: a new handle for a value
mkHandle(n, val) == [id |-> n, v |-> val]

\* FHE.add, FHE.sub, FHE.mul on plaintexts, modulo 2^EuintBits
addMod(a, b) == (a + b) % EuintMod
subMod(a, b) == (a - b + EuintMod) % EuintMod
mulMod(a, b) == (a * b) % EuintMod

\* FHE.allowThis(h); FHE.allow(h, who)
allowBoth(acl, h, who) == acl \cup {<<h.id, This>>, <<h.id, who>>}

NoGame == [player |-> ZeroAddress, wager |-> NoHandle, currentCard |-> 0,
           score |-> NoHandle, isActive |-> FALSE, timestamp |-> 0,
           gameSecret |-> 0]

NoSimpleGame == [player |-> ZeroAddress, wager |-> 0, currentCard |-> 0,
                 score |-> 0, isActive |-> FALSE, timestamp |-> 0,
                 gameSecret |-> 0]

\* the record of a transaction: the call, its arguments, the revert reason
\* (OK when it did not revert) and the values it returned
Tx(op, sender) ==
    [op |-> op, caller |-> sender, to |-> ZeroAddress, value |-> 0,
     amount |-> 0, amountB |-> 0, flag |-> FALSE, proofOK |-> TRUE,
     proofBOK |-> TRUE, err |-> OK, correct |-> FALSE, newCard |-> 0]

(***************************************************************************)
(* The hook useGameContract.  Messages are sequences of words, so that the *)
(* tests err.message.includes(...) of the error handlers can be computed.  *)
(***************************************************************************)
\* the functions of the hook that race their transaction against a timer
ClientOps == {"deposit", "makeGuess"}

\* the connected wallet
address == 1

\* setError(null)
NoError == <<>>

\* the balance shown: the ether amount of a number of wei
Shown(wei) == [kind |-> "ether", wei |-> wei]

\* the balance shown when only the deposit mark can be read
HasBalance == [kind |-> "Has Balance", wei |-> 0]

\* a function of the hook that has not been called
NoCall ==
    [pc |-> "idle", useSimpleDeposit |-> FALSE, value |-> 0,
     isHigher |-> FALSE, armed |-> FALSE, fired |-> FALSE, elapsed |-> 0,
     tx |-> "none", race |-> "none", refresh |-> FALSE, status |-> 0,
     won |-> FALSE, newCard |-> 0, result |-> "none"]

\* the functions that draw a card against the card on record
GuessOps == {"makeGuess", "simpleMakeGuess"}

\* no card drawn yet
NoDraw == [at |-> 0, card |-> 0, correct |-> FALSE]

\* no plaintext game started yet
NotOpened == [balance |-> 0, clean |-> FALSE, ending |-> "none"]

\* number of times connectWallet is called
MaxAttempts == 2

\* the calls of connectWallet, in the order they are made
Attempts == 1..MaxAttempts

\* the balances the provider can report for the account, in wei
WalletBalances == 0..1

\* the state of useWallet after the first render; null is 0
NoWallet ==
    [isConnected |-> FALSE, address |-> 0, balance |-> 0,
     isLoading |-> FALSE, error |-> NoError, abortController |-> 0]

\* a call of connectWallet that has not been made
NoAttempt ==
    [stage |-> "none", race |-> "none", aborted |-> FALSE,
     cancelled |-> FALSE, timer |-> "none", elapsed |-> 0, waited |-> 0,
     account |-> 0]

\* number of times the component calls onMakeGuess
MaxGuesses == 2

\* number of times the component calls onStartGame
MaxStarts == 2

\* number of times the component calls onCashOut
MaxCashOuts == 1

\* the calls of onMakeGuess, onStartGame and onCashOut, in the order made
Guesses == 1..MaxGuesses
Starts == 1..MaxStarts
CashOuts == 1..MaxCashOuts

\* the cards a call can bring: the ace and the king of cardNames
ShownCards == {1, 13}

\* the state of HigherLowerGame after the first render; null is 0 or "null"
NoComponent ==
    [gameState |-> "waiting", gameId |-> 0, currentCard |-> 7, score |-> 0,
     streak |-> 0, lastGuess |-> "null", nextCard |-> 0,
     showResult |-> FALSE, gameLoading |-> FALSE]

\* a call of onMakeGuess that has not been made
NoGuess ==
    [pc |-> "none", correct |-> FALSE, newCard |-> 0, elapsed |-> 0,
     score |-> 0, interrupted |-> FALSE]

\* no handler of the component has been called
NoHandlers ==
    [guess |-> [g \in Guesses |-> NoGuess],
     start |-> [s \in Starts |-> "none"],
     cashOut |-> [c \in CashOuts |-> "none"]]

\* no two calls have been tried yet
NoTrial ==
    [phase |-> "prefix", fork |-> <<>>, values |-> <<>>,
     a |-> Tx("constructor", ZeroAddress),
     b |-> Tx("constructor", ZeroAddress),
     ra |-> Tx("constructor", ZeroAddress),
     rb |-> Tx("constructor", ZeroAddress)]

Init ==
    /\ blockTimestamp = 1
    /\ blockPrevrandao \in Randaos
    /\ blockNumber = 1
    /\ encryptedBalances = [p \in Principals |-> NoHandle]
    /\ encryptedScores = [p \in Principals |-> NoHandle]
    /\ encryptedFlags = [p \in Principals |-> NoFlag]
    /\ hasDeposit = [p \in Principals |-> FALSE]
    /\ lastActivity = [p \in Principals |-> 0]
    /\ simpleBalances = [p \in Principals |-> 0]
    /\ games = [p \in Principals |-> NoGame]
    /\ simpleGames = [p \in Principals |-> NoSimpleGame]
    /\ allowed = {}
    /\ nextHandle = 1
    /\ txCount = 0
    /\ outcome = Tx("constructor", ZeroAddress)
    /\ previous = Tx("constructor", ZeroAddress)
    /\ trial = NoTrial
    /\ isLoading = FALSE
    /\ error = NoError
    /\ contractBalance = Shown(0)
    /\ calls = [op \in ClientOps |-> NoCall]
    /\ draws = [p \in Principals |-> [op \in GuessOps |-> <<NoDraw, NoDraw>>]]
    /\ opened = [p \in Principals |-> NotOpened]
    /\ wallet = NoWallet
    /\ attempts = [a \in Attempts |-> NoAttempt]
    /\ component = NoComponent
    /\ handlers = NoHandlers

(***************************************************************************)
(* The environment produces the next block.                                *)
(***************************************************************************)
NewBlock ==
    /\ blockNumber < MaxBlock
    /\ blockTimestamp' = blockTimestamp + BlockTime
    /\ \E r \in Randaos : blockPrevrandao' = r
    /\ blockNumber' = blockNumber + 1
    /\ UNCHANGED <<storage, txCount, outcome, previous, trial, clientVars, draws, opened, uiVars>>

\* a failed transaction that keeps the caller's activity timestamp
Revert_KeepsActivity(call) ==
    /\ outcome' = call
    /\ lastActivity' = [lastActivity EXCEPT ![call.caller] = blockTimestamp]
    /\ UNCHANGED <<encryptedBalances, encryptedScores, encryptedFlags,
                   hasDeposit, simpleBalances, games, simpleGames, allowed,
                   nextHandle>>

\* a transaction that reverts: storage as before, the reason recorded
Revert(call) ==
    /\ outcome' = call
    /\ UNCHANGED storage

\* a plaintext deposit that leaves no deposit on record
simpleDeposit_NoMark(sender, value) ==
    LET tx == [Tx("simpleDeposit", sender) EXCEPT !.value = value]
    IN  IF ~(value > 0)
        THEN Revert([tx EXCEPT !.err = ZeroValueDeposit])
        ELSE
          /\ simpleBalances' = [simpleBalances EXCEPT ![sender] = @ + value]
          /\ lastActivity' = [lastActivity EXCEPT ![sender] = blockTimestamp]
          /\ outcome' = tx
          /\ UNCHANGED <<encryptedBalances, encryptedScores, encryptedFlags,
                         hasDeposit, games, simpleGames, allowed, nextHandle>>

\* a plaintext deposit that sets the balance to the payment
simpleDeposit_Overwrite(sender, value) ==
    LET tx == [Tx("simpleDeposit", sender) EXCEPT !.value = value]
    IN  IF ~(value > 0)
        THEN Revert([tx EXCEPT !.err = ZeroValueDeposit])
        ELSE
          /\ simpleBalances' = [simpleBalances EXCEPT ![sender] = value]
          /\ hasDeposit' = [hasDeposit EXCEPT ![sender] = TRUE]
          /\ lastActivity' = [lastActivity EXCEPT ![sender] = blockTimestamp]
          /\ outcome' = tx
          /\ UNCHANGED <<encryptedBalances, encryptedScores, encryptedFlags,
                         games, simpleGames, allowed, nextHandle>>

(***************************************************************************)
(* Plaintext fallback ledger and the simple game.                          *)
(***************************************************************************)
simpleDeposit(sender, value) ==
    LET tx == [Tx("simpleDeposit", sender) EXCEPT !.value = value]
    IN  IF ~(value > 0)
        THEN Revert([tx EXCEPT !.err = ZeroValueDeposit])
        ELSE
          /\ simpleBalances' = [simpleBalances EXCEPT ![sender] = @ + value]
          /\ hasDeposit' = [hasDeposit EXCEPT ![sender] = TRUE]
          /\ lastActivity' = [lastActivity EXCEPT ![sender] = blockTimestamp]
          /\ outcome' = tx
          /\ UNCHANGED <<encryptedBalances, encryptedScores, encryptedFlags,
                         games, simpleGames, allowed, nextHandle>>

\* simpleStartGame without the check for a game in progress
simpleStartGame_NoActiveCheck(sender, wager) ==
    LET tx == [Tx("simpleStartGame", sender) EXCEPT !.amount = wager]
        currentCard == simpleStartCard(blockTimestamp, blockPrevrandao, sender)
    IN  IF ~(simpleBalances[sender] >= wager)
        THEN Revert([tx EXCEPT !.err = InsufficientBalance])
        ELSE
          /\ simpleGames' = [simpleGames EXCEPT ![sender] =
                [player |-> sender, wager |-> wager,
                 currentCard |-> currentCard, score |-> 0, isActive |-> TRUE,
                 timestamp |-> blockTimestamp,
                 gameSecret |-> secretOf(blockTimestamp, sender, currentCard)]]
          /\ simpleBalances' = [simpleBalances EXCEPT ![sender] = @ - wager]
          /\ outcome' = tx
          /\ UNCHANGED <<encryptedBalances, encryptedScores, encryptedFlags,
                         hasDeposit, lastActivity, games, allowed, nextHandle>>

\* simpleStartGame without the balance check
simpleStartGame_NoBalanceCheck(sender, wager) ==
    LET tx == [Tx("simpleStartGame", sender) EXCEPT !.amount = wager]
        currentCard == simpleStartCard(blockTimestamp, blockPrevrandao, sender)
    IN  IF simpleGames[sender].isActive
        THEN Revert([tx EXCEPT !.err = GameAlreadyActive])
        ELSE
          /\ simpleGames' = [simpleGames EXCEPT ![sender] =
                [player |-> sender, wager |-> wager,
                 currentCard |-> currentCard, score |-> 0, isActive |-> TRUE,
                 timestamp |-> blockTimestamp,
                 gameSecret |-> secretOf(blockTimestamp, sender, currentCard)]]
          /\ simpleBalances' = [simpleBalances EXCEPT ![sender] = @ - wager]
          /\ outcome' = tx
          /\ UNCHANGED <<encryptedBalances, encryptedScores, encryptedFlags,
                         hasDeposit, lastActivity, games, allowed, nextHandle>>

\* simpleStartGame that does not debit the wager
simpleStartGame_NoDebit(sender, wager) ==
    LET tx == [Tx("simpleStartGame", sender) EXCEPT !.amount = wager]
        currentCard == simpleStartCard(blockTimestamp, blockPrevrandao, sender)
    IN  IF simpleGames[sender].isActive
        THEN Revert([tx EXCEPT !.err = GameAlreadyActive])
        ELSE IF ~(simpleBalances[sender] >= wager)
        THEN Revert([tx EXCEPT !.err = InsufficientBalance])
        ELSE
          /\ simpleGames' = [simpleGames EXCEPT ![sender] =
                [player |-> sender, wager |-> wager,
                 currentCard |-> currentCard, score |-> 0, isActive |-> TRUE,
                 timestamp |-> blockTimestamp,
                 gameSecret |-> secretOf(blockTimestamp, sender, currentCard)]]
          /\ UNCHANGED simpleBalances
          /\ outcome' = tx
          /\ UNCHANGED <<encryptedBalances, encryptedScores, encryptedFlags,
                         hasDeposit, lastActivity, games, allowed, nextHandle>>

simpleStartGame(sender, wager) ==
    LET tx == [Tx("simpleStartGame", sender) EXCEPT !.amount = wager]
        currentCard == simpleStartCard(blockTimestamp, blockPrevrandao, sender)
    IN  IF simpleGames[sender].isActive
        THEN Revert([tx EXCEPT !.err = GameAlreadyActive])
        ELSE IF ~(simpleBalances[sender] >= wager)
        THEN Revert([tx EXCEPT !.err = InsufficientBalance])
        ELSE
          /\ simpleGames' = [simpleGames EXCEPT ![sender] =
                [player |-> sender, wager |-> wager,
                 currentCard |-> currentCard, score |-> 0, isActive |-> TRUE,
                 timestamp |-> blockTimestamp,
                 gameSecret |-> secretOf(blockTimestamp, sender, currentCard)]]
          /\ simpleBalances' = [simpleBalances EXCEPT ![sender] = @ - wager]
          /\ outcome' = tx
          /\ UNCHANGED <<encryptedBalances, encryptedScores, encryptedFlags,
                         hasDeposit, lastActivity, games, allowed, nextHandle>>

\* simpleMakeGuess that returns the wager on a wrong guess
simpleMakeGuess_RefundOnLoss(sender, isHigher) ==
    LET game == simpleGames[sender]
        newCard == simpleGuessCard(blockTimestamp, blockPrevrandao, sender,
                                   game.gameSecret)
        correct == guessCorrect(isHigher, newCard, game.currentCard)
        tx == [Tx("simpleMakeGuess", sender) EXCEPT !.flag = isHigher]
    IN  IF ~game.isActive
        THEN Revert([tx EXCEPT !.err = NoActiveGame])
        ELSE IF correct
        THEN
          /\ simpleGames' = [simpleGames EXCEPT
                ![sender].score = @ + 1,
                ![sender].currentCard = newCard]
          /\ simpleBalances' = [simpleBalances EXCEPT
                ![sender] = @ + simpleWinnings(game.wager)]
          /\ outcome' = [tx EXCEPT !.correct = TRUE, !.newCard = newCard]
          /\ UNCHANGED <<encryptedBalances, encryptedScores, encryptedFlags,
                         hasDeposit, lastActivity, games, allowed, nextHandle>>
        ELSE
          /\ simpleGames' = [simpleGames EXCEPT ![sender].isActive = FALSE]
          /\ simpleBalances' = [simpleBalances EXCEPT
                ![sender] = @ + game.wager]
          /\ outcome' = [tx EXCEPT !.correct = FALSE, !.newCard = newCard]
          /\ UNCHANGED <<encryptedBalances, encryptedScores, encryptedFlags,
                         hasDeposit, lastActivity, games, allowed, nextHandle>>

simpleMakeGuess(sender, isHigher) ==
    LET game == simpleGames[sender]
        newCard == simpleGuessCard(blockTimestamp, blockPrevrandao, sender,
                                   game.gameSecret)
        correct == guessCorrect(isHigher, newCard, game.currentCard)
        tx == [Tx("simpleMakeGuess", sender) EXCEPT !.flag = isHigher]
    IN  IF ~game.isActive
        THEN Revert([tx EXCEPT !.err = NoActiveGame])
        ELSE IF correct
        THEN
          /\ simpleGames' = [simpleGames EXCEPT
                ![sender].score = @ + 1,
                ![sender].currentCard = newCard]
          /\ simpleBalances' = [simpleBalances EXCEPT
                ![sender] = @ + simpleWinnings(game.wager)]
          /\ outcome' = [tx EXCEPT !.correct = TRUE, !.newCard = newCard]
          /\ UNCHANGED <<encryptedBalances, encryptedScores, encryptedFlags,
                         hasDeposit, lastActivity, games, allowed, nextHandle>>
        ELSE
          /\ simpleGames' = [simpleGames EXCEPT ![sender].isActive = FALSE]
          /\ outcome' = [tx EXCEPT !.correct = FALSE, !.newCard = newCard]
          /\ UNCHANGED <<encryptedBalances, encryptedScores, encryptedFlags,
                         hasDeposit, lastActivity, simpleBalances, games,
                         allowed, nextHandle>>

\* simpleCashOut that deactivates the record without crediting the wager
simpleCashOut_NoCredit(sender) ==
    LET game == simpleGames[sender]
        tx == Tx("simpleCashOut", sender)
    IN  IF ~game.isActive
        THEN Revert([tx EXCEPT !.err = NoActiveGame])
        ELSE
          /\ simpleGames' = [simpleGames EXCEPT ![sender].isActive = FALSE]
          /\ outcome' = tx
          /\ UNCHANGED <<encryptedBalances, encryptedScores, encryptedFlags,
                         hasDeposit, lastActivity, simpleBalances, games,
                         allowed, nextHandle>>

simpleCashOut(sender) ==
    LET game == simpleGames[sender]
        tx == Tx("simpleCashOut", sender)
    IN  IF ~game.isActive
        THEN Revert([tx EXCEPT !.err = NoActiveGame])
        ELSE
          /\ simpleBalances' = [simpleBalances EXCEPT ![sender] = @ + game.wager]
          /\ simpleGames' = [simpleGames EXCEPT ![sender].isActive = FALSE]
          /\ outcome' = tx
          /\ UNCHANGED <<encryptedBalances, encryptedScores, encryptedFlags,
                         hasDeposit, lastActivity, games, allowed, nextHandle>>

\* a confidential deposit that verifies the proof before the payment
depositEncrypted_ProofFirst(sender, value, plain, proofOK) ==
    LET tx == [Tx("depositEncrypted", sender) EXCEPT
                  !.value = value, !.amount = plain, !.proofOK = proofOK]
        amount == mkHandle(nextHandle, plain)
        newBalance == mkHandle(nextHandle + 1,
                               addMod(encryptedBalances[sender].v, amount.v))
    IN  IF ~proofOK
        THEN Revert([tx EXCEPT !.err = ProofVerificationFailed])
        ELSE IF ~(value > 0)
        THEN Revert([tx EXCEPT !.err = ZeroValueDeposit])
        ELSE
          /\ encryptedBalances' = [encryptedBalances EXCEPT ![sender] = newBalance]
          /\ allowed' = allowBoth(allowed, newBalance, sender)
          /\ hasDeposit' = [hasDeposit EXCEPT ![sender] = TRUE]
          /\ lastActivity' = [lastActivity EXCEPT ![sender] = blockTimestamp]
          /\ nextHandle' = nextHandle + 2
          /\ outcome' = tx
          /\ UNCHANGED <<encryptedScores, encryptedFlags, simpleBalances,
                         games, simpleGames>>

(***************************************************************************)
(* Confidential balance ledger.                                            *)
(***************************************************************************)
depositEncrypted(sender, value, plain, proofOK) ==
    LET tx == [Tx("depositEncrypted", sender) EXCEPT
                  !.value = value, !.amount = plain, !.proofOK = proofOK]
        amount == mkHandle(nextHandle, plain)
        newBalance == mkHandle(nextHandle + 1,
                               addMod(encryptedBalances[sender].v, amount.v))
    IN  IF ~(value > 0)
        THEN Revert([tx EXCEPT !.err = ZeroValueDeposit])
        ELSE IF ~proofOK
        THEN Revert([tx EXCEPT !.err = ProofVerificationFailed])
        ELSE
          /\ encryptedBalances' = [encryptedBalances EXCEPT ![sender] = newBalance]
          /\ allowed' = allowBoth(allowed, newBalance, sender)
          /\ hasDeposit' = [hasDeposit EXCEPT ![sender] = TRUE]
          /\ lastActivity' = [lastActivity EXCEPT ![sender] = blockTimestamp]
          /\ nextHandle' = nextHandle + 2
          /\ outcome' = tx
          /\ UNCHANGED <<encryptedScores, encryptedFlags, simpleBalances,
                         games, simpleGames>>

\* the divisor of fhevmDeposit (1e14 wei in the contract), in model units
FhevmScale == 2

\* the smallest payment whose quotient by the divisor needs more bits than
\* the ciphertext has (2^32 * 1e14 wei in the contract)
LargePayment == FhevmScale * EuintMod

\* uint32(amountWei / 1e14)
scale(amountWei) == (amountWei \div FhevmScale) % EuintMod

fhevmDeposit(sender, value) ==
    LET tx == [Tx("fhevmDeposit", sender) EXCEPT !.value = value]
        encryptedAmount == mkHandle(nextHandle, scale(value))
        newBalance == mkHandle(nextHandle + 1,
                        addMod(encryptedBalances[sender].v, encryptedAmount.v))
    IN  IF ~(value > 0)
        THEN Revert([tx EXCEPT !.err = ZeroValueDeposit])
        ELSE
          /\ encryptedBalances' = [encryptedBalances EXCEPT ![sender] = newBalance]
          /\ hasDeposit' = [hasDeposit EXCEPT ![sender] = TRUE]
          /\ allowed' = allowBoth(allowed, newBalance, sender)
          /\ nextHandle' = nextHandle + 2
          /\ outcome' = tx
          /\ UNCHANGED <<encryptedScores, encryptedFlags, lastActivity,
                         simpleBalances, games, simpleGames>>

\* a combination that is the same for both orders of the operands
arithmeticScore_Symmetric(a, b) == addMod(addMod(a, b), mulMod(a, b))

\* the score performArithmetic stores: sum + (difference + product)
arithmeticScore(a, b) ==
    addMod(addMod(a, b), addMod(subMod(a, b), mulMod(a, b)))

\* an arithmetic call that adds the combination to the score on record
performArithmetic_Accumulates(sender, plainA, plainB, proofA, proofB) ==
    LET tx == [Tx("performArithmetic", sender) EXCEPT
                  !.amount = plainA, !.amountB = plainB,
                  !.proofOK = proofA, !.proofBOK = proofB]
        newScore == mkHandle(nextHandle + 6,
                             addMod(encryptedScores[sender].v,
                                    arithmeticScore(plainA, plainB)))
    IN  IF ~proofA \/ ~proofB
        THEN Revert([tx EXCEPT !.err = ProofVerificationFailed])
        ELSE
          /\ encryptedScores' = [encryptedScores EXCEPT ![sender] = newScore]
          /\ allowed' = allowBoth(allowed, newScore, sender)
          /\ lastActivity' = [lastActivity EXCEPT ![sender] = blockTimestamp]
          /\ nextHandle' = nextHandle + 7
          /\ outcome' = tx
          /\ UNCHANGED <<encryptedBalances, encryptedFlags, hasDeposit,
                         simpleBalances, games, simpleGames>>

\* an arithmetic call that verifies the proof of the first operand only
performArithmetic_SecondUnverified(sender, plainA, plainB, proofA, proofB) ==
    LET tx == [Tx("performArithmetic", sender) EXCEPT
                  !.amount = plainA, !.amountB = plainB,
                  !.proofOK = proofA, !.proofBOK = proofB]
        newScore == mkHandle(nextHandle + 6, arithmeticScore(plainA, plainB))
    IN  IF ~proofA
        THEN Revert([tx EXCEPT !.err = ProofVerificationFailed])
        ELSE
          /\ encryptedScores' = [encryptedScores EXCEPT ![sender] = newScore]
          /\ allowed' = allowBoth(allowed, newScore, sender)
          /\ lastActivity' = [lastActivity EXCEPT ![sender] = blockTimestamp]
          /\ nextHandle' = nextHandle + 7
          /\ outcome' = tx
          /\ UNCHANGED <<encryptedBalances, encryptedFlags, hasDeposit,
                         simpleBalances, games, simpleGames>>

performArithmetic(sender, plainA, plainB, proofA, proofB) ==
    LET tx == [Tx("performArithmetic", sender) EXCEPT
                  !.amount = plainA, !.amountB = plainB,
                  !.proofOK = proofA, !.proofBOK = proofB]
        \* a, b, sum, difference, product and the inner add take ids
        \* nextHandle .. nextHandle + 5
        newScore == mkHandle(nextHandle + 6, arithmeticScore(plainA, plainB))
    IN  IF ~proofA \/ ~proofB
        THEN Revert([tx EXCEPT !.err = ProofVerificationFailed])
        ELSE
          /\ encryptedScores' = [encryptedScores EXCEPT ![sender] = newScore]
          /\ allowed' = allowBoth(allowed, newScore, sender)
          /\ lastActivity' = [lastActivity EXCEPT ![sender] = blockTimestamp]
          /\ nextHandle' = nextHandle + 7
          /\ outcome' = tx
          /\ UNCHANGED <<encryptedBalances, encryptedFlags, hasDeposit,
                         simpleBalances, games, simpleGames>>

\* transferEncrypted that looks for the deposit before the recipient
transferEncrypted_DepositCheckFirst(sender, to, plain, proofOK) ==
    LET tx == [Tx("transferEncrypted", sender) EXCEPT
                  !.to = to, !.amount = plain, !.proofOK = proofOK]
        amount == mkHandle(nextHandle, plain)
        fromBalance == mkHandle(nextHandle + 1,
                                subMod(encryptedBalances[sender].v, amount.v))
        toBalance == mkHandle(nextHandle + 2,
                              addMod(encryptedBalances[to].v, amount.v))
    IN  IF ~hasDeposit[sender]
        THEN Revert([tx EXCEPT !.err = NoDepositOnRecord])
        ELSE IF ~(to # sender)
        THEN Revert([tx EXCEPT !.err = SelfTransferNotAllowed])
        ELSE IF ~proofOK
        THEN Revert([tx EXCEPT !.err = ProofVerificationFailed])
        ELSE
          /\ encryptedBalances' = [encryptedBalances EXCEPT
                ![sender] = fromBalance, ![to] = toBalance]
          /\ allowed' = allowBoth(allowBoth(allowed, fromBalance, sender),
                                  toBalance, to)
          /\ hasDeposit' = [hasDeposit EXCEPT ![to] = TRUE]
          /\ lastActivity' = [lastActivity EXCEPT
                ![sender] = blockTimestamp, ![to] = blockTimestamp]
          /\ nextHandle' = nextHandle + 3
          /\ outcome' = tx
          /\ UNCHANGED <<encryptedScores, encryptedFlags, simpleBalances,
                         games, simpleGames>>

\* a transfer that stamps the activity of every account
transferEncrypted_TouchesAll(sender, to, plain, proofOK) ==
    LET tx == [Tx("transferEncrypted", sender) EXCEPT
                  !.to = to, !.amount = plain, !.proofOK = proofOK]
        amount == mkHandle(nextHandle, plain)
        fromBalance == mkHandle(nextHandle + 1,
                                subMod(encryptedBalances[sender].v, amount.v))
        toBalance == mkHandle(nextHandle + 2,
                              addMod(encryptedBalances[to].v, amount.v))
    IN  IF ~(to # sender)
        THEN Revert([tx EXCEPT !.err = SelfTransferNotAllowed])
        ELSE IF ~hasDeposit[sender]
        THEN Revert([tx EXCEPT !.err = NoDepositOnRecord])
        ELSE IF ~proofOK
        THEN Revert([tx EXCEPT !.err = ProofVerificationFailed])
        ELSE
          /\ encryptedBalances' = [encryptedBalances EXCEPT
                ![sender] = fromBalance, ![to] = toBalance]
          /\ allowed' = allowBoth(allowBoth(allowed, fromBalance, sender),
                                  toBalance, to)
          /\ hasDeposit' = [hasDeposit EXCEPT ![to] = TRUE]
          /\ lastActivity' = [p \in Principals |-> blockTimestamp]
          /\ nextHandle' = nextHandle + 3
          /\ outcome' = tx
          /\ UNCHANGED <<encryptedScores, encryptedFlags, simpleBalances,
                         games, simpleGames>>

\* a transfer that credits the recipient and does not debit the sender
transferEncrypted_NoDebit(sender, to, plain, proofOK) ==
    LET tx == [Tx("transferEncrypted", sender) EXCEPT
                  !.to = to, !.amount = plain, !.proofOK = proofOK]
        amount == mkHandle(nextHandle, plain)
        fromBalance == mkHandle(nextHandle + 1, encryptedBalances[sender].v)
        toBalance == mkHandle(nextHandle + 2,
                              addMod(encryptedBalances[to].v, amount.v))
    IN  IF ~(to # sender)
        THEN Revert([tx EXCEPT !.err = SelfTransferNotAllowed])
        ELSE IF ~hasDeposit[sender]
        THEN Revert([tx EXCEPT !.err = NoDepositOnRecord])
        ELSE IF ~proofOK
        THEN Revert([tx EXCEPT !.err = ProofVerificationFailed])
        ELSE
          /\ encryptedBalances' = [encryptedBalances EXCEPT
                ![sender] = fromBalance, ![to] = toBalance]
          /\ allowed' = allowBoth(allowBoth(allowed, fromBalance, sender),
                                  toBalance, to)
          /\ hasDeposit' = [hasDeposit EXCEPT ![to] = TRUE]
          /\ lastActivity' = [lastActivity EXCEPT
                ![sender] = blockTimestamp, ![to] = blockTimestamp]
          /\ nextHandle' = nextHandle + 3
          /\ outcome' = tx
          /\ UNCHANGED <<encryptedScores, encryptedFlags, simpleBalances,
                         games, simpleGames>>

\* a transfer that grants the new balance of the sender only
transferEncrypted_NoRecipientGrant(sender, to, plain, proofOK) ==
    LET tx == [Tx("transferEncrypted", sender) EXCEPT
                  !.to = to, !.amount = plain, !.proofOK = proofOK]
        amount == mkHandle(nextHandle, plain)
        fromBalance == mkHandle(nextHandle + 1,
                                subMod(encryptedBalances[sender].v, amount.v))
        toBalance == mkHandle(nextHandle + 2,
                              addMod(encryptedBalances[to].v, amount.v))
    IN  IF ~(to # sender)
        THEN Revert([tx EXCEPT !.err = SelfTransferNotAllowed])
        ELSE IF ~hasDeposit[sender]
        THEN Revert([tx EXCEPT !.err = NoDepositOnRecord])
        ELSE IF ~proofOK
        THEN Revert([tx EXCEPT !.err = ProofVerificationFailed])
        ELSE
          /\ encryptedBalances' = [encryptedBalances EXCEPT
                ![sender] = fromBalance, ![to] = toBalance]
          /\ allowed' = allowBoth(allowed, fromBalance, sender)
          /\ hasDeposit' = [hasDeposit EXCEPT ![to] = TRUE]
          /\ lastActivity' = [lastActivity EXCEPT
                ![sender] = blockTimestamp, ![to] = blockTimestamp]
          /\ nextHandle' = nextHandle + 3
          /\ outcome' = tx
          /\ UNCHANGED <<encryptedScores, encryptedFlags, simpleBalances,
                         games, simpleGames>>

transferEncrypted(sender, to, plain, proofOK) ==
    LET tx == [Tx("transferEncrypted", sender) EXCEPT
                  !.to = to, !.amount = plain, !.proofOK = proofOK]
        amount == mkHandle(nextHandle, plain)
        fromBalance == mkHandle(nextHandle + 1,
                                subMod(encryptedBalances[sender].v, amount.v))
        toBalance == mkHandle(nextHandle + 2,
                              addMod(encryptedBalances[to].v, amount.v))
    IN  IF ~(to # sender)
        THEN Revert([tx EXCEPT !.err = SelfTransferNotAllowed])
        ELSE IF ~hasDeposit[sender]
        THEN Revert([tx EXCEPT !.err = NoDepositOnRecord])
        ELSE IF ~proofOK
        THEN Revert([tx EXCEPT !.err = ProofVerificationFailed])
        ELSE
          /\ encryptedBalances' = [encryptedBalances EXCEPT
                ![sender] = fromBalance, ![to] = toBalance]
          /\ allowed' = allowBoth(allowBoth(allowed, fromBalance, sender),
                                  toBalance, to)
          /\ hasDeposit' = [hasDeposit EXCEPT ![to] = TRUE]
          /\ lastActivity' = [lastActivity EXCEPT
                ![sender] = blockTimestamp, ![to] = blockTimestamp]
          /\ nextHandle' = nextHandle + 3
          /\ outcome' = tx
          /\ UNCHANGED <<encryptedScores, encryptedFlags, simpleBalances,
                         games, simpleGames>>

setEncryptedFlag(sender, flag) ==
    LET tx == [Tx("setEncryptedFlag", sender) EXCEPT !.flag = flag]
        newFlag == mkHandle(nextHandle, flag)
    IN  /\ encryptedFlags' = [encryptedFlags EXCEPT ![sender] = newFlag]
        /\ allowed' = allowBoth(allowed, newFlag, sender)
        /\ lastActivity' = [lastActivity EXCEPT ![sender] = blockTimestamp]
        /\ nextHandle' = nextHandle + 1
        /\ outcome' = tx
        /\ UNCHANGED <<encryptedBalances, encryptedScores, hasDeposit,
                       simpleBalances, games, simpleGames>>

incrementScore(sender) ==
    LET tx == Tx("incrementScore", sender)
        increment == mkHandle(nextHandle, 1)
        newScore == mkHandle(nextHandle + 1,
                             addMod(encryptedScores[sender].v, increment.v))
    IN  IF ~hasDeposit[sender]
        THEN Revert([tx EXCEPT !.err = MustHaveDepositFirst])
        ELSE
          /\ encryptedScores' = [encryptedScores EXCEPT ![sender] = newScore]
          /\ allowed' = allowBoth(allowed, newScore, sender)
          /\ lastActivity' = [lastActivity EXCEPT ![sender] = blockTimestamp]
          /\ nextHandle' = nextHandle + 2
          /\ outcome' = tx
          /\ UNCHANGED <<encryptedBalances, encryptedFlags, hasDeposit,
                         simpleBalances, games, simpleGames>>

\* a confidential start whose card also hashes the number of ciphertexts
\* that the contract has made so far
startGame_GlobalNonce(sender, plain, proofOK) ==
    LET tx == [Tx("startGame", sender) EXCEPT
                  !.amount = plain, !.proofOK = proofOK]
        wager == mkHandle(nextHandle, plain)
        newBalance == mkHandle(nextHandle + 1,
                               subMod(encryptedBalances[sender].v, wager.v))
        currentCard == cardOf(keccak256(<<blockTimestamp, blockPrevrandao,
                                          sender, blockNumber, nextHandle>>))
        score == mkHandle(nextHandle + 2, 0)
    IN  IF games[sender].isActive
        THEN Revert([tx EXCEPT !.err = GameAlreadyActive])
        ELSE IF ~hasDeposit[sender]
        THEN Revert([tx EXCEPT !.err = NoDepositOnRecord])
        ELSE IF ~proofOK
        THEN Revert([tx EXCEPT !.err = ProofVerificationFailed])
        ELSE
          /\ encryptedBalances' = [encryptedBalances EXCEPT ![sender] = newBalance]
          /\ games' = [games EXCEPT ![sender] =
                [player |-> sender, wager |-> wager,
                 currentCard |-> currentCard, score |-> score,
                 isActive |-> TRUE, timestamp |-> blockTimestamp,
                 gameSecret |-> secretOf(blockTimestamp, sender, currentCard)]]
          /\ allowed' = allowBoth(allowBoth(allowBoth(allowed, wager, sender),
                                            score, sender),
                                  newBalance, sender)
          /\ nextHandle' = nextHandle + 3
          /\ outcome' = tx
          /\ UNCHANGED <<encryptedScores, encryptedFlags, hasDeposit,
                         lastActivity, simpleBalances, simpleGames>>

\* a confidential start that is refused once the caller has a record
startGame_OnceOnly(sender, plain, proofOK) ==
    LET tx == [Tx("startGame", sender) EXCEPT
                  !.amount = plain, !.proofOK = proofOK]
        wager == mkHandle(nextHandle, plain)
        newBalance == mkHandle(nextHandle + 1,
                               subMod(encryptedBalances[sender].v, wager.v))
        currentCard == startCard(blockTimestamp, blockPrevrandao, sender,
                                 blockNumber)
        score == mkHandle(nextHandle + 2, 0)
    IN  IF games[sender].isActive \/ games[sender].player # ZeroAddress
        THEN Revert([tx EXCEPT !.err = GameAlreadyActive])
        ELSE IF ~hasDeposit[sender]
        THEN Revert([tx EXCEPT !.err = NoDepositOnRecord])
        ELSE IF ~proofOK
        THEN Revert([tx EXCEPT !.err = ProofVerificationFailed])
        ELSE
          /\ encryptedBalances' = [encryptedBalances EXCEPT ![sender] = newBalance]
          /\ games' = [games EXCEPT ![sender] =
                [player |-> sender, wager |-> wager,
                 currentCard |-> currentCard, score |-> score,
                 isActive |-> TRUE, timestamp |-> blockTimestamp,
                 gameSecret |-> secretOf(blockTimestamp, sender, currentCard)]]
          /\ allowed' = allowBoth(allowBoth(allowBoth(allowed, wager, sender),
                                            score, sender),
                                  newBalance, sender)
          /\ nextHandle' = nextHandle + 3
          /\ outcome' = tx
          /\ UNCHANGED <<encryptedScores, encryptedFlags, hasDeposit,
                         lastActivity, simpleBalances, simpleGames>>

\* a confidential start that refuses a wager above the balance
startGame_BalanceChecked(sender, plain, proofOK) ==
    LET tx == [Tx("startGame", sender) EXCEPT
                  !.amount = plain, !.proofOK = proofOK]
        wager == mkHandle(nextHandle, plain)
        newBalance == mkHandle(nextHandle + 1,
                               subMod(encryptedBalances[sender].v, wager.v))
        currentCard == startCard(blockTimestamp, blockPrevrandao, sender,
                                 blockNumber)
        score == mkHandle(nextHandle + 2, 0)
    IN  IF games[sender].isActive
        THEN Revert([tx EXCEPT !.err = GameAlreadyActive])
        ELSE IF ~hasDeposit[sender]
        THEN Revert([tx EXCEPT !.err = NoDepositOnRecord])
        ELSE IF ~proofOK
        THEN Revert([tx EXCEPT !.err = ProofVerificationFailed])
        ELSE IF encryptedBalances[sender].v < plain
        THEN Revert([tx EXCEPT !.err = InsufficientBalance])
        ELSE
          /\ encryptedBalances' = [encryptedBalances EXCEPT ![sender] = newBalance]
          /\ games' = [games EXCEPT ![sender] =
                [player |-> sender, wager |-> wager,
                 currentCard |-> currentCard, score |-> score,
                 isActive |-> TRUE, timestamp |-> blockTimestamp,
                 gameSecret |-> secretOf(blockTimestamp, sender, currentCard)]]
          /\ allowed' = allowBoth(allowBoth(allowBoth(allowed, wager, sender),
                                            score, sender),
                                  newBalance, sender)
          /\ nextHandle' = nextHandle + 3
          /\ outcome' = tx
          /\ UNCHANGED <<encryptedScores, encryptedFlags, hasDeposit,
                         lastActivity, simpleBalances, simpleGames>>

(***************************************************************************)
(* Higher/Lower game on the confidential ledger.                           *)
(***************************************************************************)
startGame(sender, plain, proofOK) ==
    LET tx == [Tx("startGame", sender) EXCEPT
                  !.amount = plain, !.proofOK = proofOK]
        wager == mkHandle(nextHandle, plain)
        newBalance == mkHandle(nextHandle + 1,
                               subMod(encryptedBalances[sender].v, wager.v))
        currentCard == startCard(blockTimestamp, blockPrevrandao, sender,
                                 blockNumber)
        score == mkHandle(nextHandle + 2, 0)
    IN  IF games[sender].isActive
        THEN Revert([tx EXCEPT !.err = GameAlreadyActive])
        ELSE IF ~hasDeposit[sender]
        THEN Revert([tx EXCEPT !.err = NoDepositOnRecord])
        ELSE IF ~proofOK
        THEN Revert([tx EXCEPT !.err = ProofVerificationFailed])
        ELSE
          /\ encryptedBalances' = [encryptedBalances EXCEPT ![sender] = newBalance]
          /\ games' = [games EXCEPT ![sender] =
                [player |-> sender, wager |-> wager,
                 currentCard |-> currentCard, score |-> score,
                 isActive |-> TRUE, timestamp |-> blockTimestamp,
                 gameSecret |-> secretOf(blockTimestamp, sender, currentCard)]]
          /\ allowed' = allowBoth(allowBoth(allowBoth(allowed, wager, sender),
                                            score, sender),
                                  newBalance, sender)
          /\ nextHandle' = nextHandle + 3
          /\ outcome' = tx
          /\ UNCHANGED <<encryptedScores, encryptedFlags, hasDeposit,
                         lastActivity, simpleBalances, simpleGames>>

\* makeGuess that commits to a new secret after a correct guess
makeGuess_FreshSecret(sender, isHigher) ==
    LET game == games[sender]
        newCard == guessCard(blockTimestamp, blockPrevrandao, sender,
                             game.gameSecret, blockNumber)
        correct == guessCorrect(isHigher, newCard, game.currentCard)
        tx == [Tx("makeGuess", sender) EXCEPT !.flag = isHigher]
        newScore == mkHandle(nextHandle + 1, addMod(game.score.v, 1))
        winnings == mkHandle(nextHandle + 3, mulMod(game.wager.v, 2))
        newBalance == mkHandle(nextHandle + 4,
                               addMod(encryptedBalances[sender].v, winnings.v))
    IN  IF ~game.isActive
        THEN Revert([tx EXCEPT !.err = NoActiveGame])
        ELSE IF correct
        THEN
          /\ games' = [games EXCEPT
                ![sender].score = newScore,
                ![sender].currentCard = newCard,
                ![sender].gameSecret = secretOf(blockTimestamp, sender,
                                                newCard)]
          /\ encryptedBalances' = [encryptedBalances EXCEPT ![sender] = newBalance]
          /\ allowed' = allowBoth(allowBoth(allowed, newBalance, sender),
                                  newScore, sender)
          /\ nextHandle' = nextHandle + 5
          /\ outcome' = [tx EXCEPT !.correct = TRUE, !.newCard = newCard]
          /\ UNCHANGED <<encryptedScores, encryptedFlags, hasDeposit,
                         lastActivity, simpleBalances, simpleGames>>
        ELSE
          /\ games' = [games EXCEPT ![sender].isActive = FALSE]
          /\ outcome' = [tx EXCEPT !.correct = FALSE, !.newCard = newCard]
          /\ UNCHANGED <<encryptedBalances, encryptedScores, encryptedFlags,
                         hasDeposit, lastActivity, simpleBalances, simpleGames,
                         allowed, nextHandle>>

\* a confidential guess that pays the winnings of the plaintext game
makeGuess_PlainPayout(sender, isHigher) ==
    LET game == games[sender]
        newCard == guessCard(blockTimestamp, blockPrevrandao, sender,
                             game.gameSecret, blockNumber)
        correct == guessCorrect(isHigher, newCard, game.currentCard)
        tx == [Tx("makeGuess", sender) EXCEPT !.flag = isHigher]
        newScore == mkHandle(nextHandle + 1, addMod(game.score.v, 1))
        winnings == mkHandle(nextHandle + 3, simpleWinnings(game.wager.v))
        newBalance == mkHandle(nextHandle + 4,
                               addMod(encryptedBalances[sender].v, winnings.v))
    IN  IF ~game.isActive
        THEN Revert([tx EXCEPT !.err = NoActiveGame])
        ELSE IF correct
        THEN
          /\ games' = [games EXCEPT
                ![sender].score = newScore,
                ![sender].currentCard = newCard]
          /\ encryptedBalances' = [encryptedBalances EXCEPT ![sender] = newBalance]
          /\ allowed' = allowBoth(allowBoth(allowed, newBalance, sender),
                                  newScore, sender)
          /\ nextHandle' = nextHandle + 5
          /\ outcome' = [tx EXCEPT !.correct = TRUE, !.newCard = newCard]
          /\ UNCHANGED <<encryptedScores, encryptedFlags, hasDeposit,
                         lastActivity, simpleBalances, simpleGames>>
        ELSE
          /\ games' = [games EXCEPT ![sender].isActive = FALSE]
          /\ outcome' = [tx EXCEPT !.correct = FALSE, !.newCard = newCard]
          /\ UNCHANGED <<encryptedBalances, encryptedScores, encryptedFlags,
                         hasDeposit, lastActivity, simpleBalances, simpleGames,
                         allowed, nextHandle>>

makeGuess(sender, isHigher) ==
    LET game == games[sender]
        newCard == guessCard(blockTimestamp, blockPrevrandao, sender,
                             game.gameSecret, blockNumber)
        correct == guessCorrect(isHigher, newCard, game.currentCard)
        tx == [Tx("makeGuess", sender) EXCEPT !.flag = isHigher]
        \* FHE.asEuint32(1) takes id nextHandle
        newScore == mkHandle(nextHandle + 1, addMod(game.score.v, 1))
        \* the multiplier FHE.asEuint32(2) takes id nextHandle + 2
        winnings == mkHandle(nextHandle + 3, mulMod(game.wager.v, 2))
        newBalance == mkHandle(nextHandle + 4,
                               addMod(encryptedBalances[sender].v, winnings.v))
    IN  IF ~game.isActive
        THEN Revert([tx EXCEPT !.err = NoActiveGame])
        ELSE IF correct
        THEN
          /\ games' = [games EXCEPT
                ![sender].score = newScore,
                ![sender].currentCard = newCard]
          /\ encryptedBalances' = [encryptedBalances EXCEPT ![sender] = newBalance]
          /\ allowed' = allowBoth(allowBoth(allowed, newBalance, sender),
                                  newScore, sender)
          /\ nextHandle' = nextHandle + 5
          /\ outcome' = [tx EXCEPT !.correct = TRUE, !.newCard = newCard]
          /\ UNCHANGED <<encryptedScores, encryptedFlags, hasDeposit,
                         lastActivity, simpleBalances, simpleGames>>
        ELSE
          /\ games' = [games EXCEPT ![sender].isActive = FALSE]
          /\ outcome' = [tx EXCEPT !.correct = FALSE, !.newCard = newCard]
          /\ UNCHANGED <<encryptedBalances, encryptedScores, encryptedFlags,
                         hasDeposit, lastActivity, simpleBalances, simpleGames,
                         allowed, nextHandle>>

\* a confidential cash-out that deletes the record of the game
cashOut_ClearsRecord(sender) ==
    LET game == games[sender]
        tx == Tx("cashOut", sender)
    IN  IF ~game.isActive
        THEN Revert([tx EXCEPT !.err = NoActiveGame])
        ELSE
          /\ games' = [games EXCEPT ![sender] = NoGame]
          /\ outcome' = tx
          /\ UNCHANGED <<encryptedBalances, encryptedScores, encryptedFlags,
                         hasDeposit, lastActivity, simpleBalances, simpleGames,
                         allowed, nextHandle>>

\* a confidential cash-out that credits the wager back, as the plaintext one
cashOut_CreditsWager(sender) ==
    LET game == games[sender]
        tx == Tx("cashOut", sender)
        newBalance == mkHandle(nextHandle,
                               addMod(encryptedBalances[sender].v, game.wager.v))
    IN  IF ~game.isActive
        THEN Revert([tx EXCEPT !.err = NoActiveGame])
        ELSE
          /\ games' = [games EXCEPT ![sender].isActive = FALSE]
          /\ encryptedBalances' = [encryptedBalances EXCEPT ![sender] = newBalance]
          /\ allowed' = allowBoth(allowed, newBalance, sender)
          /\ nextHandle' = nextHandle + 1
          /\ outcome' = tx
          /\ UNCHANGED <<encryptedScores, encryptedFlags,
                         hasDeposit, lastActivity, simpleBalances, simpleGames>>

cashOut(sender) ==
    LET game == games[sender]
        tx == Tx("cashOut", sender)
    IN  IF ~game.isActive
        THEN Revert([tx EXCEPT !.err = NoActiveGame])
        ELSE
          /\ games' = [games EXCEPT ![sender].isActive = FALSE]
          /\ outcome' = tx
          /\ UNCHANGED <<encryptedBalances, encryptedScores, encryptedFlags,
                         hasDeposit, lastActivity, simpleBalances, simpleGames,
                         allowed, nextHandle>>

\* a grant that re-encrypts the score under a new handle before granting it
grantAllPermissions_Refresh(sender) ==
    LET tx == Tx("grantAllPermissions", sender)
        withBalance == IF hasDeposit[sender]
                       THEN allowBoth(allowed, encryptedBalances[sender], sender)
                       ELSE allowed
        newScore == mkHandle(nextHandle, encryptedScores[sender].v)
    IN  /\ encryptedScores' = [encryptedScores EXCEPT ![sender] = newScore]
        /\ allowed' = allowBoth(allowBoth(withBalance, newScore, sender),
                                encryptedFlags[sender], sender)
        /\ lastActivity' = [lastActivity EXCEPT ![sender] = blockTimestamp]
        /\ nextHandle' = nextHandle + 1
        /\ outcome' = tx
        /\ UNCHANGED <<encryptedBalances, encryptedFlags,
                       hasDeposit, simpleBalances, games, simpleGames>>

(***************************************************************************)
(* Utility functions.                                                      *)
(***************************************************************************)
grantAllPermissions(sender) ==
    LET tx == Tx("grantAllPermissions", sender)
        withBalance == IF hasDeposit[sender]
                       THEN allowBoth(allowed, encryptedBalances[sender], sender)
                       ELSE allowed
    IN  /\ allowed' = allowBoth(allowBoth(withBalance, encryptedScores[sender],
                                          sender),
                                encryptedFlags[sender], sender)
        /\ lastActivity' = [lastActivity EXCEPT ![sender] = blockTimestamp]
        /\ outcome' = tx
        /\ UNCHANGED <<encryptedBalances, encryptedScores, encryptedFlags,
                       hasDeposit, simpleBalances, games, simpleGames,
                       nextHandle>>

\* resetUserData that also empties the plaintext balance of the caller
resetUserData_ClearsPlaintext(sender) ==
    LET tx == Tx("resetUserData", sender)
        newBalance == mkHandle(nextHandle, 0)
        newScore == mkHandle(nextHandle + 1, 0)
        newFlag == mkHandle(nextHandle + 2, FALSE)
    IN  /\ encryptedBalances' = [encryptedBalances EXCEPT ![sender] = newBalance]
        /\ encryptedScores' = [encryptedScores EXCEPT ![sender] = newScore]
        /\ encryptedFlags' = [encryptedFlags EXCEPT ![sender] = newFlag]
        /\ allowed' = allowBoth(allowBoth(allowBoth(allowed, newBalance, sender),
                                          newScore, sender),
                                newFlag, sender)
        /\ hasDeposit' = [hasDeposit EXCEPT ![sender] = FALSE]
        /\ lastActivity' = [lastActivity EXCEPT ![sender] = blockTimestamp]
        /\ simpleBalances' = [simpleBalances EXCEPT ![sender] = 0]
        /\ nextHandle' = nextHandle + 3
        /\ outcome' = tx
        /\ UNCHANGED <<games, simpleGames>>

\* a reset that leaves the score of the caller as it is
resetUserData_KeepsScore(sender) ==
    LET tx == Tx("resetUserData", sender)
        newBalance == mkHandle(nextHandle, 0)
        newFlag == mkHandle(nextHandle + 2, FALSE)
    IN  /\ encryptedBalances' = [encryptedBalances EXCEPT ![sender] = newBalance]
        /\ encryptedFlags' = [encryptedFlags EXCEPT ![sender] = newFlag]
        /\ allowed' = allowBoth(allowBoth(allowed, newBalance, sender),
                                newFlag, sender)
        /\ hasDeposit' = [hasDeposit EXCEPT ![sender] = FALSE]
        /\ lastActivity' = [lastActivity EXCEPT ![sender] = blockTimestamp]
        /\ nextHandle' = nextHandle + 3
        /\ outcome' = tx
        /\ UNCHANGED <<encryptedScores, simpleBalances, games, simpleGames>>

\* a reset that revokes the grants on the handles it replaces
resetUserData_Revokes(sender) ==
    LET tx == Tx("resetUserData", sender)
        newBalance == mkHandle(nextHandle, 0)
        newScore == mkHandle(nextHandle + 1, 0)
        newFlag == mkHandle(nextHandle + 2, FALSE)
        old == {encryptedBalances[sender].id, encryptedScores[sender].id,
                encryptedFlags[sender].id}
        kept == {g \in allowed : g[1] \notin old}
    IN  /\ encryptedBalances' = [encryptedBalances EXCEPT ![sender] = newBalance]
        /\ encryptedScores' = [encryptedScores EXCEPT ![sender] = newScore]
        /\ encryptedFlags' = [encryptedFlags EXCEPT ![sender] = newFlag]
        /\ allowed' = allowBoth(allowBoth(allowBoth(kept, newBalance, sender),
                                          newScore, sender),
                                newFlag, sender)
        /\ hasDeposit' = [hasDeposit EXCEPT ![sender] = FALSE]
        /\ lastActivity' = [lastActivity EXCEPT ![sender] = blockTimestamp]
        /\ nextHandle' = nextHandle + 3
        /\ outcome' = tx
        /\ UNCHANGED <<simpleBalances, games, simpleGames>>

resetUserData(sender) ==
    LET tx == Tx("resetUserData", sender)
        newBalance == mkHandle(nextHandle, 0)
        newScore == mkHandle(nextHandle + 1, 0)
        newFlag == mkHandle(nextHandle + 2, FALSE)
    IN  /\ encryptedBalances' = [encryptedBalances EXCEPT ![sender] = newBalance]
        /\ encryptedScores' = [encryptedScores EXCEPT ![sender] = newScore]
        /\ encryptedFlags' = [encryptedFlags EXCEPT ![sender] = newFlag]
        /\ allowed' = allowBoth(allowBoth(allowBoth(allowed, newBalance, sender),
                                          newScore, sender),
                                newFlag, sender)
        /\ hasDeposit' = [hasDeposit EXCEPT ![sender] = FALSE]
        /\ lastActivity' = [lastActivity EXCEPT ![sender] = blockTimestamp]
        /\ nextHandle' = nextHandle + 3
        /\ outcome' = tx
        /\ UNCHANGED <<simpleBalances, games, simpleGames>>

(***************************************************************************)
(* The view functions, as the queries of a principal.                      *)
(***************************************************************************)
getEncryptedBalance(user) == encryptedBalances[user]
getEncryptedScore(user) == encryptedScores[user]
getEncryptedFlag(user) == encryptedFlags[user]
getSimpleBalance(user) == simpleBalances[user]
hasBalanceDeposited(user) == hasDeposit[user]
getEncryptedWager(user) == games[user].wager

(***************************************************************************)
(* The calls a principal can submit, by the part of the contract they      *)
(* belong to.                                                              *)
(***************************************************************************)
SimpleCall(sender) ==
    \/ \E value \in Payments : simpleDeposit(sender, value)
    \/ \E wager \in Wagers : simpleStartGame(sender, wager)
    \/ \E isHigher \in BOOLEAN : simpleMakeGuess(sender, isHigher)
    \/ simpleCashOut(sender)

GameCall(sender) ==
    \/ \E plain \in Plaintexts, proofOK \in BOOLEAN :
          startGame(sender, plain, proofOK)
    \/ \E isHigher \in BOOLEAN : makeGuess(sender, isHigher)
    \/ cashOut(sender)

LedgerCall(sender) ==
    \/ \E value \in Payments, plain \in Plaintexts, proofOK \in BOOLEAN :
          depositEncrypted(sender, value, plain, proofOK)
    \/ \E value \in Payments : fhevmDeposit(sender, value)
    \/ \E a \in Plaintexts, b \in Plaintexts, proofA \in BOOLEAN,
          proofB \in BOOLEAN :
          performArithmetic(sender, a, b, proofA, proofB)
    \/ \E to \in Principals, plain \in Plaintexts, proofOK \in BOOLEAN :
          transferEncrypted(sender, to, plain, proofOK)
    \/ \E flag \in BOOLEAN : setEncryptedFlag(sender, flag)
    \/ incrementScore(sender)
    \/ grantAllPermissions(sender)
    \/ resetUserData(sender)

(***************************************************************************)
(* One transaction of the log: any principal calls any function with any   *)
(* arguments, in the current block.                                        *)
(***************************************************************************)
Transaction ==
    /\ txCount < MaxTx
    /\ txCount' = txCount + 1
    /\ UNCHANGED <<previous, trial, clientVars, draws, opened, uiVars>>
    /\ UNCHANGED blockVars
    /\ \E sender \in Callers :
          SimpleCall(sender) \/ GameCall(sender) \/ LedgerCall(sender)

Next == Transaction \/ NewBlock

Spec == Init /\ [][Next]_vars

(***************************************************************************)
(* The two games alone, followed over longer logs: the calls of the games  *)
(* and the plaintext deposit, which is a deposit on record for both.       *)
(***************************************************************************)
GameTransaction ==
    /\ txCount < MaxGameTx
    /\ txCount' = txCount + 1
    /\ UNCHANGED <<previous, trial, clientVars, draws, opened, uiVars>>
    /\ UNCHANGED blockVars
    /\ \E sender \in Callers : SimpleCall(sender) \/ GameCall(sender)

NextGame == GameTransaction \/ NewBlock

SpecGame == Init /\ [][NextGame]_vars

(***************************************************************************)
(* The two games with the log remembering, for every principal and each    *)
(* of the two guess functions, the last two draws of the game in progress  *)
(* and the block they were made in: the time, the entropy and the sequence *)
(* number change only from one block to the next.                          *)
(***************************************************************************)
\* the draws on record after the transaction tx, executed in this block
drawsAfter(tx) ==
    IF tx.err # OK THEN draws
    ELSE IF tx.op \in GuessOps
    THEN [draws EXCEPT ![tx.caller][tx.op] =
            <<[at |-> blockNumber, card |-> tx.newCard,
               correct |-> tx.correct], @[1]>>]
    ELSE IF tx.op = "startGame"
    THEN [draws EXCEPT ![tx.caller]["makeGuess"] = <<NoDraw, NoDraw>>]
    ELSE IF tx.op = "simpleStartGame"
    THEN [draws EXCEPT ![tx.caller]["simpleMakeGuess"] = <<NoDraw, NoDraw>>]
    ELSE draws

\* the account of the plaintext game of each principal after the
\* transaction tx: the balance simpleStartGame found, whether the principal
\* has deposited since, and how the game ended
openedAfter(tx) ==
    IF tx.err # OK THEN opened
    ELSE IF tx.op = "simpleStartGame"
    THEN [opened EXCEPT ![tx.caller] =
            [balance |-> simpleBalances[tx.caller], clean |-> TRUE,
             ending |-> "none"]]
    ELSE IF tx.op = "simpleDeposit"
    THEN [opened EXCEPT ![tx.caller].clean = FALSE]
    ELSE IF tx.op = "simpleMakeGuess" /\ ~tx.correct
    THEN [opened EXCEPT ![tx.caller].ending = "wrong guess"]
    ELSE IF tx.op = "simpleCashOut"
    THEN [opened EXCEPT ![tx.caller].ending = "cashOut"]
    ELSE opened

InstantTransaction ==
    /\ txCount < MaxGameTx
    /\ txCount' = txCount + 1
    /\ \E sender \in Callers : SimpleCall(sender) \/ GameCall(sender)
    /\ draws' = drawsAfter(outcome')
    /\ opened' = openedAfter(outcome')
    /\ UNCHANGED <<blockVars, previous, trial, clientVars, uiVars>>

NextInstant == InstantTransaction \/ NewBlock

SpecInstant == Init /\ [][NextInstant]_vars

(***************************************************************************)
(* One principal alone, calling every function of the contract, followed   *)
(* one transaction further than the log of all principals.                 *)
(***************************************************************************)
\* the principal that is followed alone
Single == 1

SingleTransaction ==
    /\ txCount < MaxTx + 1
    /\ txCount' = txCount + 1
    /\ \/ SimpleCall(Single)
       \/ GameCall(Single)
       \/ LedgerCall(Single)
    /\ UNCHANGED <<blockVars, previous, trial, clientVars, draws, opened, uiVars>>

NextSingle == SingleTransaction \/ NewBlock

SpecSingle == Init /\ [][NextSingle]_vars

(***************************************************************************)
(* The confidential ledger alone, with the log remembering the transaction *)
(* before the last one, for the properties of two consecutive calls.       *)
(***************************************************************************)
LedgerTransaction ==
    /\ txCount < MaxTx
    /\ txCount' = txCount + 1
    /\ previous' = outcome
    /\ UNCHANGED <<blockVars, trial, clientVars, draws, opened, uiVars>>
    /\ \E sender \in Callers :
          LedgerCall(sender) \/ fhevmDeposit(sender, LargePayment)

NextLedger == LedgerTransaction \/ NewBlock

SpecLedger == Init /\ [][NextLedger]_vars

(***************************************************************************)
(* Two transactions of different principals, in both orders.  After a      *)
(* prefix of successful transactions (a reverted one leaves the storage as *)
(* it was), the log continues with a call a of one principal and then a    *)
(* call b of another one, in the same block; the storage is then put back  *)
(* to what it was before a, and the same two calls are executed as b, a.   *)
(* trial keeps the storage before the two calls, the records of the calls  *)
(* and the plaintext state that the first order produced.                  *)
(***************************************************************************)
\* the state of a principal, with every handle replaced by its plaintext
valuesOf(p) ==
    [balance |-> encryptedBalances[p].v,
     score |-> encryptedScores[p].v,
     flag |-> encryptedFlags[p].v,
     hasDeposit |-> hasDeposit[p],
     lastActivity |-> lastActivity[p],
     simpleBalance |-> simpleBalances[p],
     game |-> [games[p] EXCEPT !.wager = @.v, !.score = @.v],
     simpleGame |-> simpleGames[p]]

valuesAll == [p \in Principals |-> valuesOf(p)]

\* neither call is a transfer that names the caller of the other
Independent(x, y) ==
    /\ x.caller # y.caller
    /\ ~(x.op = "transferEncrypted" /\ x.to = y.caller)
    /\ ~(y.op = "transferEncrypted" /\ y.to = x.caller)

AnyCall(sender) ==
    SimpleCall(sender) \/ GameCall(sender) \/ LedgerCall(sender)

\* the call of a record, submitted again with the same arguments
Redo(tx) ==
    \/ tx.op = "simpleDeposit" /\ simpleDeposit(tx.caller, tx.value)
    \/ tx.op = "simpleStartGame" /\ simpleStartGame(tx.caller, tx.amount)
    \/ tx.op = "simpleMakeGuess" /\ simpleMakeGuess(tx.caller, tx.flag)
    \/ tx.op = "simpleCashOut" /\ simpleCashOut(tx.caller)
    \/ tx.op = "startGame"
          /\ startGame(tx.caller, tx.amount, tx.proofOK)
    \/ tx.op = "makeGuess" /\ makeGuess(tx.caller, tx.flag)
    \/ tx.op = "cashOut" /\ cashOut(tx.caller)
    \/ tx.op = "depositEncrypted"
          /\ depositEncrypted(tx.caller, tx.value, tx.amount, tx.proofOK)
    \/ tx.op = "fhevmDeposit" /\ fhevmDeposit(tx.caller, tx.value)
    \/ tx.op = "performArithmetic"
          /\ performArithmetic(tx.caller, tx.amount, tx.amountB, tx.proofOK,
                               tx.proofBOK)
    \/ tx.op = "transferEncrypted"
          /\ transferEncrypted(tx.caller, tx.to, tx.amount, tx.proofOK)
    \/ tx.op = "setEncryptedFlag" /\ setEncryptedFlag(tx.caller, tx.flag)
    \/ tx.op = "incrementScore" /\ incrementScore(tx.caller)
    \/ tx.op = "grantAllPermissions" /\ grantAllPermissions(tx.caller)
    \/ tx.op = "resetUserData" /\ resetUserData(tx.caller)

PrefixTransaction ==
    /\ trial.phase = "prefix"
    /\ txCount < MaxTx - 1
    /\ txCount' = txCount + 1
    /\ \E sender \in Callers : AnyCall(sender)
    /\ outcome'.err = OK
    /\ UNCHANGED <<blockVars, previous, trial, clientVars, draws, opened, uiVars>>

\* the call a, on the storage that the prefix left
FirstOrderA ==
    /\ trial.phase = "prefix"
    /\ txCount' = txCount + 1
    /\ AnyCall(1)
    /\ trial' = [trial EXCEPT !.phase = "a", !.fork = storage, !.a = outcome']
    /\ UNCHANGED <<blockVars, previous, clientVars, draws, opened, uiVars>>

\* the call b, after a
FirstOrderB ==
    /\ trial.phase = "a"
    /\ txCount' = txCount + 1
    /\ AnyCall(2)
    /\ Independent(trial.a, outcome')
    /\ trial' = [trial EXCEPT !.phase = "ab", !.b = outcome',
                              !.values = valuesAll']
    /\ UNCHANGED <<blockVars, previous, clientVars, draws, opened, uiVars>>

\* back to the storage before a
Rewind ==
    /\ trial.phase = "ab"
    /\ encryptedBalances' = trial.fork[1]
    /\ encryptedScores' = trial.fork[2]
    /\ encryptedFlags' = trial.fork[3]
    /\ hasDeposit' = trial.fork[4]
    /\ lastActivity' = trial.fork[5]
    /\ simpleBalances' = trial.fork[6]
    /\ games' = trial.fork[7]
    /\ simpleGames' = trial.fork[8]
    /\ allowed' = trial.fork[9]
    /\ nextHandle' = trial.fork[10]
    /\ trial' = [trial EXCEPT !.phase = "rewound"]
    /\ UNCHANGED <<blockVars, txCount, outcome, previous, clientVars, draws, opened, uiVars>>

\* the call b again, this time before a
SecondOrderB ==
    /\ trial.phase = "rewound"
    /\ txCount' = txCount + 1
    /\ Redo(trial.b)
    /\ trial' = [trial EXCEPT !.phase = "b", !.rb = outcome']
    /\ UNCHANGED <<blockVars, previous, clientVars, draws, opened, uiVars>>

\* the call a again, after b
SecondOrderA ==
    /\ trial.phase = "b"
    /\ txCount' = txCount + 1
    /\ Redo(trial.a)
    /\ trial' = [trial EXCEPT !.phase = "ba", !.ra = outcome']
    /\ UNCHANGED <<blockVars, previous, clientVars, draws, opened, uiVars>>

\* blocks are produced while the prefix runs; the two calls share a block
PrefixBlock == trial.phase = "prefix" /\ NewBlock

NextOrder ==
    \/ PrefixTransaction
    \/ PrefixBlock
    \/ FirstOrderA
    \/ FirstOrderB
    \/ Rewind
    \/ SecondOrderB
    \/ SecondOrderA

SpecOrder == Init /\ [][NextOrder]_vars

(***************************************************************************)
(* The hook useGameContract in the browser of the connected wallet.  Its   *)
(* deposit and makeGuess send one transaction each and race it against a   *)
(* timer; the wallet, the chain and the clock take their steps in between. *)
(* Nothing clears the timer or recalls the transaction when the call has   *)
(* returned, so both go on after it.  The calls are followed within one   *)
(* block of the chain: the cards depend on the block, the hook does not.   *)
(***************************************************************************)
\* setTimeout(..., 60000), in seconds
TimeoutSeconds == 60

\* the clock is looked at every TickSeconds
TickSeconds == 30

\* the block, the storage and the log of the contract
chainVars ==
    <<blockVars, storage, txCount, outcome, previous, trial, draws, opened>>

\* everything the hook useGameContract does not write
contractSide == <<chainVars, uiVars>>

\* message.includes(phrase)
Includes(message, phrase) ==
    \E i \in 1..Len(message) :
       /\ i + Len(phrase) - 1 <= Len(message)
       /\ SubSeq(message, i, i + Len(phrase) - 1) = phrase

\* new Error(message)
Error(message) == [code |-> "", reason |-> <<>>, message |-> message]

\* the error the timer rejects with
TimerError(op) ==
    IF op = "deposit"
    THEN Error(<<"Deposit", "timeout", "after", "60", "seconds", ".",
                 "Please", "check", "MetaMask", ".">>)
    ELSE Error(<<"Transaction", "timeout", "after", "60", "seconds">>)

\* the wallet refused to sign
UserRejected ==
    [code |-> "ACTION_REJECTED", reason |-> <<"rejected">>,
     message |-> <<"user", "rejected", "action">>]

\* tx.wait() of a reverted transaction
CallException ==
    [code |-> "CALL_EXCEPTION", reason |-> <<>>,
     message |-> <<"transaction", "execution", "reverted">>]

\* deposit found a receipt whose status is not 1
TransactionFailed == Error(<<"Transaction", "failed", "on", "blockchain">>)

\* both gas estimations of deposit failed
GasEstimationFailed ==
    Error(<<"Gas", "estimation", "failed", ":">> \o CallException.message)

\* the message the catch block of deposit shows
depositErrorMessage(err) ==
    IF err.code \in {"ACTION_REJECTED", "4001"}
    THEN <<"Transaction", "rejected", "by", "user">>
    ELSE IF Includes(err.message, <<"insufficient", "funds">>)
    THEN <<"Insufficient", "funds", "for", "transaction", "+", "gas", "fees">>
    ELSE IF Includes(err.message, <<"timeout">>)
    THEN <<"Transaction", "timeout", ".", "Please", "check", "MetaMask",
           "and", "network", "status", ".">>
    ELSE IF err.code = "UNPREDICTABLE_GAS_LIMIT"
    THEN <<"Transaction", "may", "fail", ".", "Please", "check", "contract",
           "state", "and", "try", "again", ".">>
    ELSE IF Includes(err.message, <<"network">>)
    THEN <<"Network", "error", ".", "Please", "check", "your", "connection",
           "and", "try", "again", ".">>
    ELSE IF Includes(err.message, <<"Gas", "estimation", "failed">>)
    THEN err.message
    ELSE IF Includes(err.message, <<"Address", "mismatch">>)
    THEN <<"Wallet", "address", "mismatch", ".", "Please", "refresh", "and",
           "reconnect", "your", "wallet", ".">>
    ELSE <<"Deposit", "failed", ":">>
         \o (IF err.reason # <<>> THEN err.reason
             ELSE IF err.message # <<>> THEN err.message
             ELSE <<"Unknown", "error", "occurred">>)

\* the message the catch block of makeGuess shows
makeGuessErrorMessage(err) ==
    IF Includes(err.message, <<"timeout">>)
    THEN <<"Transaction", "timeout", "-", "the", "network", "might", "be",
           "slow", ".", "Please", "try", "again", ".">>
    ELSE IF err.code = "ACTION_REJECTED"
    THEN <<"Transaction", "rejected", "by", "user">>
    ELSE IF Includes(err.message, <<"insufficient", "funds">>)
    THEN <<"Insufficient", "funds", "for", "gas", "fees">>
    ELSE err.message

\* what a failed call returns: deposit false, makeGuess null
Failure(op) == IF op = "deposit" THEN "false" ELSE "null"

\* catch and finally: the message is shown and the loading mark is taken off
Catch(op, err) ==
    /\ error' = IF op = "deposit" THEN depositErrorMessage(err)
                ELSE makeGuessErrorMessage(err)
    /\ isLoading' = FALSE

\* the call after its catch block: it has returned its failure
Caught(c, op) ==
    [c EXCEPT !.pc = "returned", !.result = Failure(op),
              !.race = IF @ = "pending" THEN "rejected" ELSE @]

\* deposit is called: without contract or address it only shows a message
hookDeposit ==
    /\ calls["deposit"].pc = "idle"
    /\ \E amount \in Payments, hasContract \in BOOLEAN, hasAddress \in BOOLEAN :
          IF ~hasContract \/ ~hasAddress
          THEN
            /\ error' = IF ~hasAddress
                        THEN <<"Please", "connect", "your", "wallet", "first">>
                        ELSE <<"Contract", "not", "initialized", "-", "please",
                               "refresh", "and", "try", "again">>
            /\ calls' = [calls EXCEPT !["deposit"] =
                            [@ EXCEPT !.pc = "returned", !.result = "false"]]
            /\ UNCHANGED isLoading
          ELSE
            /\ isLoading' = TRUE
            /\ error' = NoError
            /\ calls' = [calls EXCEPT !["deposit"] =
                            [@ EXCEPT !.pc = "estimating", !.value = amount]]
    /\ UNCHANGED <<contractSide, contractBalance>>

\* the gas of the encrypted deposit is estimated, then that of the plain
\* one; when an estimation succeeds the timer is set and the wallet asked
hookDepositEstimateGas ==
    LET c == calls["deposit"]
        answers == IF c.value > 0 THEN BOOLEAN ELSE {FALSE}
    IN  /\ c.pc = "estimating"
        /\ \E fhevmOK \in answers, simpleOK \in answers :
              IF fhevmOK \/ simpleOK
              THEN
                /\ calls' = [calls EXCEPT !["deposit"] =
                                [c EXCEPT !.pc = "racing",
                                          !.useSimpleDeposit = ~fhevmOK,
                                          !.armed = TRUE, !.elapsed = 0,
                                          !.race = "pending",
                                          !.tx = "signing"]]
                /\ UNCHANGED <<isLoading, error>>
              ELSE
                /\ Catch("deposit", GasEstimationFailed)
                /\ calls' = [calls EXCEPT !["deposit"] = Caught(c, "deposit")]
        /\ UNCHANGED <<contractSide, contractBalance>>

\* makeGuess is called: the timer is set and the wallet asked
hookMakeGuess ==
    /\ calls["makeGuess"].pc = "idle"
    /\ \E guess \in BOOLEAN, hasContract \in BOOLEAN :
          IF ~hasContract
          THEN
            /\ calls' = [calls EXCEPT !["makeGuess"] =
                            [@ EXCEPT !.pc = "returned", !.result = "null"]]
            /\ UNCHANGED <<isLoading, error>>
          ELSE
            /\ isLoading' = TRUE
            /\ error' = NoError
            /\ calls' = [calls EXCEPT !["makeGuess"] =
                            [@ EXCEPT !.pc = "racing", !.isHigher = guess,
                                      !.armed = TRUE, !.elapsed = 0,
                                      !.race = "pending", !.tx = "signing"]]
    /\ UNCHANGED <<contractSide, contractBalance>>

\* the wallet signs and sends the transaction
walletSends(op) ==
    /\ calls[op].tx = "signing"
    /\ calls' = [calls EXCEPT ![op].tx = "sent"]
    /\ UNCHANGED <<contractSide, isLoading, error, contractBalance>>

\* the user rejects the transaction in the wallet
walletRejects(op) ==
    LET c == [calls[op] EXCEPT !.tx = "rejected"]
    IN  /\ calls[op].tx = "signing"
        /\ IF c.race = "pending"
           THEN /\ Catch(op, UserRejected)
                /\ calls' = [calls EXCEPT ![op] = Caught(c, op)]
           ELSE /\ calls' = [calls EXCEPT ![op] = c]
                /\ UNCHANGED <<isLoading, error>>
        /\ UNCHANGED <<contractSide, contractBalance>>

\* the transaction is executed in the current block
transactionMined(op) ==
    LET c == calls[op]
    IN  /\ c.tx = "sent"
        /\ txCount < MaxGameTx
        /\ txCount' = txCount + 1
        /\ IF op = "makeGuess"
           THEN simpleMakeGuess(address, c.isHigher)
           ELSE IF c.useSimpleDeposit
           THEN simpleDeposit(address, c.value)
           ELSE \E plain \in Plaintexts, proofOK \in BOOLEAN :
                   depositEncrypted(address, c.value, plain, proofOK)
        /\ calls' = [calls EXCEPT ![op] =
                        [c EXCEPT !.tx = "mined",
                                  !.status = IF outcome'.err = OK THEN 1 ELSE 0,
                                  !.won = outcome'.correct,
                                  !.newCard = outcome'.newCard]]
        /\ UNCHANGED <<blockVars, previous, trial, draws, opened, uiVars,
                       isLoading, error, contractBalance>>

\* tx.wait() settles
receiptArrives(op) ==
    LET c == calls[op]
        d == [c EXCEPT !.tx = "delivered"]
    IN  /\ c.tx = "mined"
        /\ UNCHANGED <<contractSide, contractBalance>>
        /\ IF c.race # "pending"
           THEN \* the call has returned; the promise of the transaction
                \* still refreshes the balance after a lost guess
             /\ calls' = [calls EXCEPT ![op] =
                   [d EXCEPT !.refresh = (op = "makeGuess" /\ c.status = 1
                                          /\ ~c.won)]]
             /\ UNCHANGED <<isLoading, error>>
           ELSE IF c.status # 1
           THEN \E throws \in BOOLEAN :
                  IF throws \/ op = "deposit"
                  THEN
                    /\ Catch(op, IF throws THEN CallException
                                 ELSE TransactionFailed)
                    /\ calls' = [calls EXCEPT ![op] = Caught(d, op)]
                  ELSE \* no GameResult in the logs: makeGuess returns null
                    /\ calls' = [calls EXCEPT ![op] =
                          [d EXCEPT !.pc = "returned", !.race = "resolved",
                                    !.result = "null"]]
                    /\ isLoading' = FALSE
                    /\ UNCHANGED error
           ELSE IF op = "deposit"
           THEN
             /\ calls' = [calls EXCEPT ![op] =
                   [d EXCEPT !.pc = "refreshing", !.race = "resolved",
                             !.refresh = TRUE]]
             /\ UNCHANGED <<isLoading, error>>
           ELSE IF c.won
           THEN
             /\ calls' = [calls EXCEPT ![op] =
                   [d EXCEPT !.pc = "returned", !.race = "resolved",
                             !.result = "value"]]
             /\ isLoading' = FALSE
             /\ UNCHANGED error
           ELSE
             /\ calls' = [calls EXCEPT ![op] = [d EXCEPT !.refresh = TRUE]]
             /\ UNCHANGED <<isLoading, error>>

\* loadContractBalance answers; the function that awaited it returns
loadContractBalance(op) ==
    LET c == [calls[op] EXCEPT !.refresh = FALSE]
    IN  /\ calls[op].refresh
        /\ \E simpleOK \in BOOLEAN, markOK \in BOOLEAN :
              contractBalance' =
                 IF simpleOK THEN Shown(getSimpleBalance(address))
                 ELSE IF markOK /\ hasBalanceDeposited(address)
                 THEN HasBalance
                 ELSE Shown(0)
        /\ IF op = "deposit" /\ c.pc = "refreshing"
           THEN
             /\ calls' = [calls EXCEPT ![op] =
                   [c EXCEPT !.pc = "returned", !.result = "true"]]
             /\ isLoading' = FALSE
             /\ UNCHANGED error
           ELSE IF op = "makeGuess" /\ c.race = "pending"
           THEN
             /\ calls' = [calls EXCEPT ![op] =
                   [c EXCEPT !.pc = "returned", !.race = "resolved",
                             !.result = "value"]]
             /\ isLoading' = FALSE
             /\ UNCHANGED error
           ELSE
             /\ calls' = [calls EXCEPT ![op] = c]
             /\ UNCHANGED <<isLoading, error>>
        /\ UNCHANGED contractSide

\* a timer that fires and finds its call still waiting
timerFires_NoRace(op) ==
    LET c == calls[op]
    IN  /\ c.armed /\ ~c.fired /\ c.elapsed >= TimeoutSeconds
        /\ calls' = [calls EXCEPT ![op].fired = TRUE]
        /\ UNCHANGED <<contractSide, isLoading, error, contractBalance>>

\* the timer fires: the race is lost when it is still undecided
timerFires(op) ==
    LET c == [calls[op] EXCEPT !.fired = TRUE]
    IN  /\ c.armed /\ ~calls[op].fired /\ c.elapsed >= TimeoutSeconds
        /\ IF c.race = "pending"
           THEN /\ Catch(op, TimerError(op))
                /\ calls' = [calls EXCEPT ![op] = Caught(c, op)]
           ELSE /\ calls' = [calls EXCEPT ![op] = c]
                /\ UNCHANGED <<isLoading, error>>
        /\ UNCHANGED <<contractSide, contractBalance>>

\* time passes for the timers that are set; a timer that is due fires
\* before more time passes
Tick ==
    LET running(op) == calls[op].armed /\ ~calls[op].fired
    IN  /\ \E op \in ClientOps : running(op)
        /\ \A op \in ClientOps :
              running(op) => calls[op].elapsed < TimeoutSeconds
        /\ calls' = [op \in ClientOps |->
                        IF running(op)
                        THEN [calls[op] EXCEPT !.elapsed = @ + TickSeconds]
                        ELSE calls[op]]
        /\ UNCHANGED <<contractSide, isLoading, error, contractBalance>>

\* the wallet starts or cashes out a plaintext game from another session
otherTransaction ==
    /\ txCount < MaxGameTx
    /\ txCount' = txCount + 1
    /\ \/ \E wager \in Wagers : simpleStartGame(address, wager)
       \/ simpleCashOut(address)
    /\ UNCHANGED <<blockVars, previous, trial, clientVars, draws, opened, uiVars>>

NextClient ==
    \/ hookDeposit
    \/ hookDepositEstimateGas
    \/ hookMakeGuess
    \/ \E op \in ClientOps : walletSends(op)
    \/ \E op \in ClientOps : walletRejects(op)
    \/ \E op \in ClientOps : transactionMined(op)
    \/ \E op \in ClientOps : receiptArrives(op)
    \/ \E op \in ClientOps : loadContractBalance(op)
    \/ \E op \in ClientOps : timerFires(op)
    \/ Tick
    \/ otherTransaction

SpecClient == Init /\ [][NextClient]_vars

(***************************************************************************)
(* Properties.  TxStep: the step is a transaction (not a new block);       *)
(* outcome' is the transaction's record and the unprimed variables are the *)
(* storage it ran against.                                                 *)
(***************************************************************************)
TxStep == txCount' = txCount + 1

Succeeded(op) == TxStep /\ outcome'.op = op /\ outcome'.err = OK

\* C1: each principal has at most one Active record per ledger variant:
\* startGame and simpleStartGame called by a principal whose record of that
\* variant is Active fail with GameAlreadyActive and leave the record (and
\* every other game record) as it was.
C1_OneActiveGamePerVariant ==
    [][\A p \in Principals :
          /\ (TxStep /\ outcome'.op = "startGame" /\ outcome'.caller = p
                /\ games[p].isActive)
             => (outcome'.err = GameAlreadyActive /\ UNCHANGED games)
          /\ (TxStep /\ outcome'.op = "simpleStartGame" /\ outcome'.caller = p
                /\ simpleGames[p].isActive)
             => (outcome'.err = GameAlreadyActive /\ UNCHANGED simpleGames)
      ]_vars

\* a confidential startGame rejected with GameAlreadyActive: the caller's
\* record is Active and stays so
C1_Witness ==
    /\ outcome.op = "startGame"
    /\ outcome.err = GameAlreadyActive
    /\ games[outcome.caller].isActive
    /\ games[outcome.caller].player = outcome.caller

\* C2: every card drawn lies in 1..13: for every digest the draw is in
\* 1..13, the currentCard of every started record is in 1..13 and so is the
\* card returned by every guess.
C2_CardsInRange ==
    /\ \A digest \in 0..(HashSpace - 1) : cardOf(digest) \in 1..13
    /\ \A p \in Principals :
          /\ games[p].player # ZeroAddress => games[p].currentCard \in 1..13
          /\ simpleGames[p].player # ZeroAddress
                => simpleGames[p].currentCard \in 1..13
    /\ (outcome.op \in {"makeGuess", "simpleMakeGuess"} /\ outcome.err = OK)
          => outcome.newCard \in 1..13

\* a correct confidential guess has replaced the card of a started record,
\* by a principal that also started a plaintext game
C2_Witness ==
    /\ outcome.op = "makeGuess"
    /\ outcome.err = OK
    /\ outcome.correct
    /\ games[outcome.caller].currentCard = outcome.newCard
    /\ simpleGames[outcome.caller].player # ZeroAddress

\* C3: a guess whose new card equals the record's currentCard is incorrect
\* for isHigher = TRUE and for isHigher = FALSE: the record becomes inactive
\* and nothing is credited.
C3_TieIsIncorrect ==
    [][\A p \in Principals :
          /\ (Succeeded("makeGuess") /\ outcome'.caller = p
                /\ outcome'.newCard = games[p].currentCard)
             => /\ ~outcome'.correct
                /\ ~games'[p].isActive
                /\ UNCHANGED <<encryptedBalances, simpleBalances>>
          /\ (Succeeded("simpleMakeGuess") /\ outcome'.caller = p
                /\ outcome'.newCard = simpleGames[p].currentCard)
             => /\ ~outcome'.correct
                /\ ~simpleGames'[p].isActive
                /\ UNCHANGED <<encryptedBalances, simpleBalances>>
      ]_vars

\* a "higher" guess on the confidential path drew the card already shown
C3_Witness ==
    /\ outcome.op = "makeGuess"
    /\ outcome.err = OK
    /\ outcome.flag
    /\ ~outcome.correct
    /\ outcome.newCard = games[outcome.caller].currentCard
    /\ ~games[outcome.caller].isActive

\* C4: a transaction that fails a precondition leaves the whole state as it
\* was: balances, scores, flags, grants, hasDeposit, lastActivity and both
\* kinds of game record of every principal.
C4_FailureChangesNothing ==
    [][(TxStep /\ outcome'.err # OK) => UNCHANGED storage]_vars

\* a transfer rejected for its proof, by a caller with a deposit on record
C4_Witness ==
    /\ outcome.op = "transferEncrypted"
    /\ outcome.err = ProofVerificationFailed
    /\ hasDeposit[outcome.caller]

\* C5: transferEncrypted with to = caller fails with SelfTransferNotAllowed
\* for every amount, with or without a deposit, with or without a valid
\* proof.
C5_SelfTransferRejected ==
    (outcome.op = "transferEncrypted" /\ outcome.to = outcome.caller)
        => outcome.err = SelfTransferNotAllowed

\* a self-transfer by a caller without deposit and with a rejected proof
C5_Witness ==
    /\ outcome.op = "transferEncrypted"
    /\ outcome.to = outcome.caller
    /\ ~hasDeposit[outcome.caller]
    /\ ~outcome.proofOK
    /\ outcome.amount > 0

\* C6 as stated: simpleStartGame with a wager greater than the caller's
\* balance fails with InsufficientBalance.
C6_Original ==
    [][\A p \in Principals :
          (TxStep /\ outcome'.op = "simpleStartGame" /\ outcome'.caller = p
             /\ outcome'.amount > simpleBalances[p])
          => outcome'.err = InsufficientBalance
      ]_vars

\* C6 amended: simpleStartGame with a wager greater than the caller's
\* balance fails, with GameAlreadyActive when the caller's plaintext record
\* is Active and with InsufficientBalance otherwise; a plaintext balance
\* only ever decreases by the wager of a successful simpleStartGame of its
\* owner, a wager that is at most the balance.
C6_DebitGuarded ==
    [][\A p \in Principals :
          /\ (TxStep /\ outcome'.op = "simpleStartGame" /\ outcome'.caller = p
                /\ outcome'.amount > simpleBalances[p])
             => /\ outcome'.err = IF simpleGames[p].isActive
                                  THEN GameAlreadyActive
                                  ELSE InsufficientBalance
                /\ UNCHANGED simpleBalances
          /\ simpleBalances'[p] < simpleBalances[p]
             => /\ Succeeded("simpleStartGame")
                /\ outcome'.caller = p
                /\ outcome'.amount <= simpleBalances[p]
                /\ simpleBalances'[p] = simpleBalances[p] - outcome'.amount
      ]_vars

\* a positive wager refused to a principal that never deposited
C6_Witness ==
    /\ outcome.op = "simpleStartGame"
    /\ outcome.err = InsufficientBalance
    /\ outcome.amount > 0
    /\ ~hasDeposit[outcome.caller]
    /\ simpleBalances[outcome.caller] = 0

\* C7: simpleStartGame(wager) by a principal with no Active plaintext game
\* and balance >= wager succeeds, reduces the caller's balance by exactly
\* wager in the same step and stores an Active record with score 0, the
\* given wager and currentCard in 1..13.
C7_SimpleStartGameEffect ==
    [][\A p \in Principals :
          (TxStep /\ outcome'.op = "simpleStartGame" /\ outcome'.caller = p
             /\ ~simpleGames[p].isActive
             /\ simpleBalances[p] >= outcome'.amount)
          => /\ outcome'.err = OK
             /\ simpleBalances'[p] = simpleBalances[p] - outcome'.amount
             /\ simpleGames'[p].isActive
             /\ simpleGames'[p].score = 0
             /\ simpleGames'[p].wager = outcome'.amount
             /\ simpleGames'[p].currentCard \in 1..13
             /\ simpleGames'[p].player = p
      ]_vars

\* a game started with a positive wager, the balance already debited
C7_Witness ==
    /\ outcome.op = "simpleStartGame"
    /\ outcome.err = OK
    /\ outcome.amount > 0
    /\ simpleGames[outcome.caller].isActive
    /\ simpleGames[outcome.caller].wager = outcome.amount
    /\ simpleBalances[outcome.caller] > 0

\* C8 as stated: a correct simpleMakeGuess increases the balance by
\* wager * 1.5.
C8_Original ==
    [][\A p \in Principals :
          (Succeeded("simpleMakeGuess") /\ outcome'.caller = p
             /\ outcome'.correct)
          => 2 * (simpleBalances'[p] - simpleBalances[p])
                = 3 * simpleGames[p].wager
      ]_vars

\* C8 amended: a correct simpleMakeGuess increases the caller's balance by
\* floor(wager * 15 / 10), increases the record's score by exactly 1, sets
\* currentCard to the new card and leaves the record Active; the score of
\* a record changes in no other way than to 0 at a start, so after n
\* consecutive correct guesses it is n.
C8_CorrectSimpleGuess ==
    [][\A p \in Principals :
          /\ (Succeeded("simpleMakeGuess") /\ outcome'.caller = p
                /\ outcome'.correct)
             => /\ simpleBalances'[p]
                      = simpleBalances[p] + (simpleGames[p].wager * 15) \div 10
                /\ simpleGames'[p].score = simpleGames[p].score + 1
                /\ simpleGames'[p].currentCard = outcome'.newCard
                /\ simpleGames'[p].isActive
                /\ simpleGames'[p].wager = simpleGames[p].wager
          /\ simpleGames'[p].score # simpleGames[p].score
             => \/ /\ Succeeded("simpleMakeGuess") /\ outcome'.caller = p
                   /\ outcome'.correct
                \/ /\ Succeeded("simpleStartGame") /\ outcome'.caller = p
                   /\ simpleGames'[p].score = 0
      ]_vars

\* two correct guesses in a row on a game with a wager of 1
C8_Witness ==
    /\ outcome.op = "simpleMakeGuess"
    /\ outcome.err = OK
    /\ outcome.correct
    /\ simpleGames[outcome.caller].score = 2
    /\ simpleGames[outcome.caller].wager = 1

\* C9: an incorrect guess, of either variant, ends the game in that same
\* step; no balance is credited and the wager is not returned.
C9_IncorrectGuessEndsGame ==
    [][\A p \in Principals :
          /\ (Succeeded("makeGuess") /\ outcome'.caller = p
                /\ ~outcome'.correct)
             => /\ ~games'[p].isActive
                /\ UNCHANGED <<encryptedBalances, simpleBalances>>
          /\ (Succeeded("simpleMakeGuess") /\ outcome'.caller = p
                /\ ~outcome'.correct)
             => /\ ~simpleGames'[p].isActive
                /\ UNCHANGED <<encryptedBalances, simpleBalances>>
      ]_vars

\* a plaintext game with a positive wager lost after one correct guess
C9_Witness ==
    /\ outcome.op = "simpleMakeGuess"
    /\ outcome.err = OK
    /\ ~outcome.correct
    /\ ~simpleGames[outcome.caller].isActive
    /\ simpleGames[outcome.caller].wager > 0
    /\ simpleGames[outcome.caller].score > 0

\* C10: cashOut succeeds whenever the caller's record is Active, whatever
\* the score: it deactivates the record and, on the plaintext path, credits
\* exactly the wager; while the record is inactive every guess and cashOut
\* of that variant fails with NoActiveGame, and only a successful start of
\* the game by that principal makes the record Active again.
C10_CashOutAndAfter ==
    [][\A p \in Principals :
          /\ (TxStep /\ outcome'.op = "simpleCashOut" /\ outcome'.caller = p
                /\ simpleGames[p].isActive)
             => /\ outcome'.err = OK
                /\ ~simpleGames'[p].isActive
                /\ simpleBalances'[p]
                      = simpleBalances[p] + simpleGames[p].wager
          /\ (TxStep /\ outcome'.op = "cashOut" /\ outcome'.caller = p
                /\ games[p].isActive)
             => /\ outcome'.err = OK
                /\ ~games'[p].isActive
          /\ (TxStep /\ outcome'.op \in {"simpleMakeGuess", "simpleCashOut"}
                /\ outcome'.caller = p /\ ~simpleGames[p].isActive)
             => outcome'.err = NoActiveGame
          /\ (TxStep /\ outcome'.op \in {"makeGuess", "cashOut"}
                /\ outcome'.caller = p /\ ~games[p].isActive)
             => outcome'.err = NoActiveGame
          /\ (~simpleGames[p].isActive /\ simpleGames'[p].isActive)
             => (Succeeded("simpleStartGame") /\ outcome'.caller = p)
          /\ (~games[p].isActive /\ games'[p].isActive)
             => (Succeeded("startGame") /\ outcome'.caller = p)
      ]_vars

\* a plaintext game with a positive wager cashed out at a positive score:
\* the record is inactive and the wager is on the balance
C10_Witness ==
    /\ outcome.op = "simpleCashOut"
    /\ outcome.err = OK
    /\ ~simpleGames[outcome.caller].isActive
    /\ simpleGames[outcome.caller].score > 0
    /\ simpleGames[outcome.caller].wager > 0
    /\ simpleBalances[outcome.caller] >= simpleGames[outcome.caller].wager

(***************************************************************************)
(* C11: a simpleDeposit with a payment v > 0 succeeds, increases the        *)
(* caller's plaintext balance by exactly v and leaves the plaintext        *)
(* balance of every other principal as it was; from a fresh account the    *)
(* balance query then returns v.                                           *)
(***************************************************************************)
C11_SimpleDepositCredits ==
    [][\A p \in Principals :
        (TxStep /\ outcome'.op = "simpleDeposit" /\ outcome'.caller = p
            /\ outcome'.value > 0)
        => /\ outcome'.err = OK
           /\ simpleBalances'[p] = simpleBalances[p] + outcome'.value
           /\ \A q \in Principals \ {p} :
                 simpleBalances'[q] = simpleBalances[q]
           /\ (simpleBalances[p] = 0 /\ ~hasDeposit[p])
                 => getSimpleBalance(p)' = outcome'.value]_vars

\* the second deposit of an account: 2 wei, then 1 wei
C11_Witness ==
    /\ txCount = 2
    /\ outcome.op = "simpleDeposit" /\ outcome.err = OK
    /\ outcome.value = 1
    /\ getSimpleBalance(outcome.caller) = 3

(***************************************************************************)
(* C12: depositEncrypted, fhevmDeposit and simpleDeposit called with no    *)
(* payment fail with ZeroValueDeposit, whatever the proof that comes with  *)
(* the call (the payment is checked before the proof), and a deposit that  *)
(* sets hasDeposit of an account carried a positive payment.               *)
(***************************************************************************)
C12_ZeroValueDepositFails ==
    [][(TxStep /\ outcome'.op \in {"depositEncrypted", "fhevmDeposit",
                                   "simpleDeposit"})
        => /\ outcome'.value = 0
              => outcome'.err = ZeroValueDeposit /\ hasDeposit' = hasDeposit
           /\ (\E p \in Principals : hasDeposit'[p] /\ ~hasDeposit[p])
              => outcome'.value > 0]_vars

\* a confidential deposit without payment and with a proof that does not
\* verify: the revert reason is the one of the payment
C12_Witness ==
    /\ outcome.op = "depositEncrypted"
    /\ outcome.value = 0
    /\ ~outcome.proofOK
    /\ outcome.err = ZeroValueDeposit

\* the handle is granted to the engine itself and to the principal
Granted(h, p) == <<h.id, This>> \in allowed /\ <<h.id, p>> \in allowed

C14_PermissionsOnlyGrow ==
    [][allowed \subseteq allowed']_vars

\* after a reset, the caller still holds a grant on a handle that is no
\* longer the handle of any of the caller's slots
C14_Witness ==
    /\ outcome.op = "resetUserData" /\ outcome.err = OK
    /\ \E g \in allowed :
          /\ g[2] = outcome.caller
          /\ g[1] # 0
          /\ g[1] \notin {encryptedBalances[outcome.caller].id,
                          encryptedScores[outcome.caller].id,
                          encryptedFlags[outcome.caller].id,
                          games[outcome.caller].score.id,
                          games[outcome.caller].wager.id}

\* the plaintexts behind the balance, score and flag of every principal
ledgerValues ==
    [p \in Principals |-> <<encryptedBalances[p].v, encryptedScores[p].v,
                            encryptedFlags[p].v>>]

(***************************************************************************)
(* C15: grantAllPermissions always succeeds and changes no balance, score  *)
(* or flag value, no hasDeposit and no game record; when the transaction   *)
(* before it was a grantAllPermissions of the same principal, it leaves    *)
(* the permission relation as that first call left it.                     *)
(***************************************************************************)
C15_GrantAllIdempotent ==
    [][\A p \in Principals :
        (TxStep /\ outcome'.op = "grantAllPermissions" /\ outcome'.caller = p)
        => /\ outcome'.err = OK
           /\ ledgerValues' = ledgerValues
           /\ UNCHANGED <<hasDeposit, games, simpleGames>>
           /\ (outcome.op = "grantAllPermissions" /\ outcome.caller = p)
                 => allowed' = allowed]_vars

\* two calls in a row by one principal; the grants of the first are there
C15_Witness ==
    /\ previous.op = "grantAllPermissions" /\ previous.err = OK
    /\ outcome.op = "grantAllPermissions" /\ outcome.err = OK
    /\ previous.caller = outcome.caller
    /\ Granted(encryptedScores[outcome.caller], outcome.caller)
    /\ Granted(encryptedFlags[outcome.caller], outcome.caller)

(***************************************************************************)
(* C16: resetUserData succeeds from every state, and after it the queries  *)
(* of the caller return the defaults: the balance and the score are        *)
(* encryptions of zero, the flag is an encryption of false and             *)
(* hasBalanceDeposited is false.                                           *)
(***************************************************************************)
C16_ResetReturnsDefaults ==
    [][\A p \in Principals :
        (TxStep /\ outcome'.op = "resetUserData" /\ outcome'.caller = p)
        => /\ outcome'.err = OK
           /\ getEncryptedBalance(p)'.v = 0
           /\ getEncryptedScore(p)'.v = 0
           /\ getEncryptedFlag(p)'.v = FALSE
           /\ hasBalanceDeposited(p)' = FALSE]_vars

\* a reset right after the caller computed a score of 3 out of (1, 1)
C16_Witness ==
    /\ previous.op = "performArithmetic" /\ previous.err = OK
    /\ previous.amount = 1 /\ previous.amountB = 1
    /\ outcome.op = "resetUserData" /\ outcome.err = OK
    /\ previous.caller = outcome.caller
    /\ getEncryptedScore(outcome.caller).v = 0
    /\ getEncryptedScore(outcome.caller).id # 0

(***************************************************************************)
(* C17: a transferEncrypted to another account succeeds only for a caller  *)
(* with a deposit on record and fails with NoDepositOnRecord otherwise; a  *)
(* successful transfer subtracts the amount from the caller's encrypted    *)
(* balance and adds it to the recipient's, both modulo 2^EuintBits, so the *)
(* sum of the two balances is preserved modulo 2^EuintBits; it sets        *)
(* hasDeposit of the recipient and lastActivity of both to the timestamp   *)
(* of the block.                                                           *)
(***************************************************************************)
C17_TransferEffect ==
    [][\A p \in Principals, r \in Principals :
        (TxStep /\ outcome'.op = "transferEncrypted" /\ outcome'.caller = p
            /\ outcome'.to = r)
        => /\ outcome'.err = OK => hasDeposit[p]
           /\ (r # p /\ ~hasDeposit[p]) => outcome'.err = NoDepositOnRecord
           /\ outcome'.err = OK =>
                /\ encryptedBalances'[p].v =
                      (encryptedBalances[p].v - outcome'.amount + 2 ^ EuintBits)
                         % (2 ^ EuintBits)
                /\ encryptedBalances'[r].v =
                      (encryptedBalances[r].v + outcome'.amount)
                         % (2 ^ EuintBits)
                /\ (encryptedBalances'[p].v + encryptedBalances'[r].v)
                         % (2 ^ EuintBits)
                   = (encryptedBalances[p].v + encryptedBalances[r].v)
                         % (2 ^ EuintBits)
                /\ hasDeposit'[r]
                /\ lastActivity'[p] = blockTimestamp
                /\ lastActivity'[r] = blockTimestamp]_vars

\* the transfer of 1 out of a balance of 1, in the second block, to an
\* account that never sent a transaction
C17_Witness ==
    /\ previous.op = "depositEncrypted" /\ previous.amount = 1
    /\ previous.caller = outcome.caller
    /\ outcome.op = "transferEncrypted" /\ outcome.err = OK
    /\ outcome.amount = 1 /\ outcome.to = 3
    /\ encryptedBalances[outcome.caller].v = 0
    /\ encryptedBalances[3].v = 1
    /\ hasDeposit[3]
    /\ blockTimestamp = 2
    /\ lastActivity[3] = 2 /\ lastActivity[outcome.caller] = 2

\* all the state of the contract that belongs to one principal
stateOf(p) ==
    <<encryptedBalances[p], encryptedScores[p], encryptedFlags[p],
      hasDeposit[p], lastActivity[p], simpleBalances[p], games[p],
      simpleGames[p]>>

(***************************************************************************)
(* C18: a transaction changes no balance, score, flag, hasDeposit,         *)
(* lastActivity or game record of a principal other than its caller,       *)
(* except that transferEncrypted also changes the named recipient; a       *)
(* successful transferEncrypted changes the state of both.                 *)
(***************************************************************************)
C18_OnlyCallerAndRecipient ==
    [][TxStep =>
        /\ \A q \in Principals :
              (q # outcome'.caller
                  /\ ~(outcome'.op = "transferEncrypted" /\ q = outcome'.to))
              => stateOf(q)' = stateOf(q)
        /\ \A p \in Principals, r \in Principals :
              (outcome'.op = "transferEncrypted" /\ outcome'.err = OK
                  /\ outcome'.caller = p /\ outcome'.to = r)
              => stateOf(p)' # stateOf(p) /\ stateOf(r)' # stateOf(r)]_vars

\* account 1 transfers to account 3; account 2, the third principal, is
\* as it was constructed
C18_Witness ==
    /\ outcome.op = "transferEncrypted" /\ outcome.err = OK
    /\ outcome.caller = 1 /\ outcome.to = 3
    /\ encryptedBalances[3].id # 0
    /\ stateOf(2) = <<NoHandle, NoHandle, NoFlag, FALSE, 0, 0, NoGame,
                      NoSimpleGame>>

\* the functions of the confidential path
ConfidentialOps ==
    {"depositEncrypted", "fhevmDeposit", "performArithmetic",
     "transferEncrypted", "setEncryptedFlag", "incrementScore", "startGame",
     "makeGuess", "cashOut", "grantAllPermissions", "resetUserData"}

\* the debit of a successful startGame or transferEncrypted wraps around
DebitWraps(p) ==
    /\ outcome'.err = OK
    /\ encryptedBalances'[p].v =
          (encryptedBalances[p].v - outcome'.amount + 2 ^ EuintBits)
             % (2 ^ EuintBits)

(***************************************************************************)
(* C19, as stated: every startGame and every transferEncrypted of a        *)
(* principal with a deposit on record and a valid proof succeeds and       *)
(* leaves (balance - amount) mod 2^EuintBits as the balance, and no call   *)
(* of the confidential path reports InsufficientBalance.                   *)
(***************************************************************************)
C19_Original ==
    [][\A p \in Principals :
        /\ (TxStep /\ outcome'.op \in {"startGame", "transferEncrypted"}
               /\ outcome'.caller = p /\ hasDeposit[p] /\ outcome'.proofOK)
           => DebitWraps(p)
        /\ (TxStep /\ outcome'.op \in ConfidentialOps)
           => outcome'.err # InsufficientBalance]_vars

(***************************************************************************)
(* C19, amended: a startGame of a principal with no Active confidential    *)
(* game, and a transferEncrypted to another account, of a principal with a *)
(* deposit on record and a valid proof succeed whatever the balance and    *)
(* leave (balance - amount) mod 2^EuintBits as the balance; no call of the *)
(* confidential path reports InsufficientBalance.                          *)
(***************************************************************************)
C19_DebitWraps ==
    [][\A p \in Principals :
        /\ (TxStep /\ outcome'.op = "startGame" /\ outcome'.caller = p
               /\ hasDeposit[p] /\ outcome'.proofOK /\ ~games[p].isActive)
           => DebitWraps(p)
        /\ (TxStep /\ outcome'.op = "transferEncrypted" /\ outcome'.caller = p
               /\ hasDeposit[p] /\ outcome'.proofOK /\ outcome'.to # p)
           => DebitWraps(p)
        /\ (TxStep /\ outcome'.op \in ConfidentialOps)
           => outcome'.err # InsufficientBalance]_vars

\* a game started with a wager of 1 on a confidential balance of 0
C19_Witness ==
    /\ outcome.op = "startGame" /\ outcome.err = OK
    /\ outcome.amount = 1
    /\ encryptedBalances[outcome.caller].v = 2 ^ EuintBits - 1

(***************************************************************************)
(* C20: a correct makeGuess adds wager * 2 (modulo 2^EuintBits) to the     *)
(* caller's encrypted balance and 1 to the encrypted score of the game,    *)
(* sets currentCard to the card it drew and leaves the record Active.      *)
(***************************************************************************)
C20_CorrectGuessCredits ==
    [][\A p \in Principals :
        (TxStep /\ outcome'.op = "makeGuess" /\ outcome'.caller = p
            /\ outcome'.err = OK /\ outcome'.correct)
        => /\ encryptedBalances'[p].v =
                 (encryptedBalances[p].v
                     + ((games[p].wager.v * 2) % (2 ^ EuintBits)))
                    % (2 ^ EuintBits)
           /\ games'[p].score.v = (games[p].score.v + 1) % (2 ^ EuintBits)
           /\ games'[p].currentCard = outcome'.newCard
           /\ games'[p].isActive
           /\ games'[p].wager = games[p].wager]_vars

\* a correct guess in a game started with a wager of 1 on a balance of 0:
\* the balance went from 2^EuintBits - 1 to 1
C20_Witness ==
    /\ outcome.op = "makeGuess" /\ outcome.err = OK /\ outcome.correct
    /\ games[outcome.caller].wager.v = 1
    /\ games[outcome.caller].score.v = 1
    /\ games[outcome.caller].currentCard = outcome.newCard
    /\ games[outcome.caller].isActive
    /\ encryptedBalances[outcome.caller].v = 1

(***************************************************************************)
(* C21: a successful confidential cashOut changes nothing but the isActive *)
(* field of the caller's record: every encrypted balance and score, the    *)
(* permission relation, hasDeposit and lastActivity stay as they were; an  *)
(* incorrect makeGuess leaves the same balance and the same record.        *)
(***************************************************************************)
C21_CashOutOnlyDeactivates ==
    [][\A p \in Principals :
        /\ (TxStep /\ outcome'.op = "cashOut" /\ outcome'.caller = p
               /\ outcome'.err = OK)
           => /\ games[p].isActive
              /\ games' = [games EXCEPT ![p].isActive = FALSE]
              /\ UNCHANGED <<encryptedBalances, encryptedScores, allowed,
                             hasDeposit, lastActivity>>
        /\ (TxStep /\ outcome'.op = "makeGuess" /\ outcome'.caller = p
               /\ outcome'.err = OK /\ ~outcome'.correct)
           => /\ games' = [games EXCEPT ![p].isActive = FALSE]
              /\ encryptedBalances' = encryptedBalances]_vars

\* the cash-out of a game with a wager of 1 started on a balance of 0: the
\* balance is still the 2^EuintBits - 1 that startGame left
C21_Witness ==
    /\ outcome.op = "cashOut" /\ outcome.err = OK
    /\ games[outcome.caller].wager.v = 1
    /\ ~games[outcome.caller].isActive
    /\ encryptedBalances[outcome.caller].v = 2 ^ EuintBits - 1

(***************************************************************************)
(* C22: whenever a principal has no Active record and meets the            *)
(* precondition of the ledger (a deposit on record and a valid proof for   *)
(* startGame, a plaintext balance of at least the wager for                *)
(* simpleStartGame), starting a game succeeds, also after an earlier game  *)
(* of the principal ended; the record is then Active with score 0, the     *)
(* wager of the call, a card drawn from the current block and the secret   *)
(* derived from it, whatever the old record held.                          *)
(***************************************************************************)
C22_StartAgain ==
    [][\A p \in Principals :
        /\ (TxStep /\ outcome'.op = "startGame" /\ outcome'.caller = p
               /\ ~games[p].isActive /\ hasDeposit[p] /\ outcome'.proofOK)
           => /\ outcome'.err = OK
              /\ games'[p].isActive
              /\ games'[p].player = p
              /\ games'[p].score.v = 0
              /\ games'[p].wager.v = outcome'.amount
              /\ games'[p].currentCard =
                    startCard(blockTimestamp, blockPrevrandao, p, blockNumber)
              /\ games'[p].timestamp = blockTimestamp
              /\ games'[p].gameSecret =
                    secretOf(blockTimestamp, p, games'[p].currentCard)
        /\ (TxStep /\ outcome'.op = "simpleStartGame" /\ outcome'.caller = p
               /\ ~simpleGames[p].isActive
               /\ simpleBalances[p] >= outcome'.amount)
           => /\ outcome'.err = OK
              /\ simpleGames'[p] =
                    [player |-> p, wager |-> outcome'.amount,
                     currentCard |->
                        simpleStartCard(blockTimestamp, blockPrevrandao, p),
                     score |-> 0, isActive |-> TRUE,
                     timestamp |-> blockTimestamp,
                     gameSecret |->
                        secretOf(blockTimestamp, p,
                                 simpleStartCard(blockTimestamp,
                                                 blockPrevrandao, p))]]_vars

\* the second confidential game of a principal (its wager is the fourth
\* handle; the first three were made by the principal's first startGame)
C22_Witness ==
    /\ outcome.op = "startGame" /\ outcome.err = OK
    /\ games[outcome.caller].isActive
    /\ games[outcome.caller].wager.id = 4
    /\ games[outcome.caller].score.v = 0
    /\ \A q \in Principals \ {outcome.caller} : games[q] = NoGame

(***************************************************************************)
(* C23: a successful fhevmDeposit has the side effects of                  *)
(* depositEncrypted: it stores a new balance handle granted to the engine  *)
(* and to the caller, sets hasDeposit of the caller and sets lastActivity  *)
(* of the caller to the timestamp of the block.                            *)
(***************************************************************************)
C23_SameSideEffects ==
    [][\A p \in Principals :
        (TxStep /\ outcome'.op \in {"fhevmDeposit", "depositEncrypted"}
            /\ outcome'.caller = p /\ outcome'.err = OK)
        => /\ encryptedBalances'[p].id # encryptedBalances[p].id
           /\ <<encryptedBalances'[p].id, This>> \in allowed'
           /\ <<encryptedBalances'[p].id, p>> \in allowed'
           /\ hasDeposit'[p]
           /\ lastActivity'[p] = blockTimestamp]_vars

\* the call carries a payload that the proof verifier does not accept
Rejected(tx) ==
    \/ ~tx.proofOK
    \/ tx.op = "performArithmetic" /\ ~tx.proofBOK

\* the requires ahead of FHE.fromExternal pass, so the verifier is asked
ReachesVerifier(tx) ==
    CASE tx.op = "depositEncrypted" -> tx.value > 0
      [] tx.op = "transferEncrypted" ->
            tx.to # tx.caller /\ hasDeposit[tx.caller]
      [] tx.op = "startGame" ->
            ~games[tx.caller].isActive /\ hasDeposit[tx.caller]
      [] OTHER -> TRUE

(***************************************************************************)
(* C24: depositEncrypted, transferEncrypted, performArithmetic and         *)
(* startGame succeed only when every ciphertext they were given was        *)
(* accepted by the proof verifier; a call with a rejected payload fails    *)
(* and leaves the storage as it was, and it fails with                     *)
(* ProofVerificationFailed whenever the call gets as far as the verifier.  *)
(***************************************************************************)
C24_ProofBeforeUse ==
    [][(TxStep /\ outcome'.op \in {"depositEncrypted", "transferEncrypted",
                                   "performArithmetic", "startGame"}
           /\ Rejected(outcome'))
        => /\ outcome'.err # OK
           /\ UNCHANGED storage
           /\ ReachesVerifier(outcome')
                 => outcome'.err = ProofVerificationFailed]_vars

\* an arithmetic call whose first payload verifies and whose second does not
C24_Witness ==
    /\ outcome.op = "performArithmetic"
    /\ outcome.proofOK /\ ~outcome.proofBOK
    /\ outcome.err = ProofVerificationFailed
    /\ encryptedScores[outcome.caller] = NoHandle

C26_ZeroWagerRejected ==
    [][TxStep =>
        /\ (outcome'.op \in {"simpleStartGame", "startGame"}
               /\ outcome'.amount = 0)
           => outcome'.err # OK
        /\ \A p \in Principals :
              /\ simpleGames'[p].isActive => simpleGames'[p].wager # 0
              /\ games'[p].isActive => games'[p].wager.v # 0]_vars

(***************************************************************************)
(* C27: a cash-out of a plaintext game with wager w and score s pays       *)
(* w * 1.5^s * 0.95, and nothing at score 0; in integers,                  *)
(* payout * 10^s * 100 = w * 15^s * 95 for s > 0.                          *)
(***************************************************************************)
C27_PayoutCurve ==
    [][\A p \in Principals :
        (TxStep /\ outcome'.op = "simpleCashOut" /\ outcome'.caller = p
            /\ outcome'.err = OK)
        => LET w == simpleGames[p].wager
               s == simpleGames[p].score
               payout == simpleBalances'[p] - simpleBalances[p]
           IN  IF s = 0
               THEN payout = 0
               ELSE payout * (10 ^ s) * 100 = w * (15 ^ s) * 95]_vars

(***************************************************************************)
(* C29: performArithmetic succeeds exactly when both proofs verify, with   *)
(* or without a deposit on record; it then overwrites the score of the    *)
(* caller with (a+b) + ((a-b) + (a*b)), every operation modulo 2^EuintBits *)
(* and a-b wrapping when a < b, whatever the score was before, and leaves  *)
(* the balance, the flag and the deposit mark of the caller as they were.  *)
(***************************************************************************)
C29_ArithmeticOverwrites ==
    [][\A p \in Principals :
         (TxStep /\ outcome'.op = "performArithmetic" /\ outcome'.caller = p)
         => LET a == outcome'.amount
                b == outcome'.amountB
                M == 2 ^ EuintBits
                sum == (a + b) % M
                difference == IF a < b THEN M - ((b - a) % M) ELSE (a - b) % M
                product == (a * b) % M
            IN  /\ outcome'.err = OK
                   <=> (outcome'.proofOK /\ outcome'.proofBOK)
                /\ outcome'.err = OK
                   => /\ encryptedScores'[p].v
                           = (sum + ((difference + product) % M)) % M
                      /\ encryptedBalances'[p] = encryptedBalances[p]
                      /\ encryptedFlags'[p] = encryptedFlags[p]
                      /\ hasDeposit'[p] = hasDeposit[p]]_vars

\* performArithmetic(0, 1) by an account with no deposit, right after its
\* performArithmetic(1, 1) had stored 3: the difference wraps and the
\* score is overwritten with 0
C29_Witness ==
    /\ outcome.op = "performArithmetic" /\ outcome.err = OK
    /\ outcome.amount = 0 /\ outcome.amountB = 1
    /\ previous.op = "performArithmetic" /\ previous.err = OK
    /\ previous.caller = outcome.caller
    /\ previous.amount = 1 /\ previous.amountB = 1
    /\ ~hasDeposit[outcome.caller]
    /\ encryptedScores[outcome.caller].v = 0
    /\ encryptedBalances[outcome.caller] = NoHandle

(***************************************************************************)
(* C30 as stated: when performArithmetic(b, a) follows performArithmetic   *)
(* (a, b) of the same caller, it stores the same score.                    *)
(***************************************************************************)
C30_Original ==
    [][\A p \in Principals :
         (/\ Succeeded("performArithmetic") /\ outcome'.caller = p
          /\ outcome.op = "performArithmetic" /\ outcome.err = OK
          /\ outcome.caller = p
          /\ outcome'.amount = outcome.amountB
          /\ outcome'.amountB = outcome.amount)
         => encryptedScores'[p].v = encryptedScores[p].v]_vars

(***************************************************************************)
(* C30: the sum and the product do not depend on the order of the          *)
(* operands, the difference does: when performArithmetic(b, a) follows     *)
(* performArithmetic(a, b) of the same caller, the score it stores is the  *)
(* score on record plus 2 * (b - a), modulo 2^EuintBits.                   *)
(***************************************************************************)
C30_SwapDiffers ==
    [][\A p \in Principals :
         (/\ Succeeded("performArithmetic") /\ outcome'.caller = p
          /\ outcome.op = "performArithmetic" /\ outcome.err = OK
          /\ outcome.caller = p
          /\ outcome'.amount = outcome.amountB
          /\ outcome'.amountB = outcome.amount)
         => LET M == 2 ^ EuintBits
                a == outcome.amount
                b == outcome.amountB
            IN  encryptedScores'[p].v
                  = (encryptedScores[p].v + (2 * M) + (2 * (b - a))) % M]_vars

\* performArithmetic(1, 0) right after performArithmetic(0, 1) of the same
\* account: the first stored 0, the second stores 2
C30_Witness ==
    /\ outcome.op = "performArithmetic" /\ outcome.err = OK
    /\ outcome.amount = 1 /\ outcome.amountB = 0
    /\ previous.op = "performArithmetic" /\ previous.err = OK
    /\ previous.caller = outcome.caller
    /\ previous.amount = 0 /\ previous.amountB = 1
    /\ encryptedScores[outcome.caller].v = 2

\* the call returned what it returns when it succeeded
Success(c) == c.result \in {"true", "value"}

\* the messages the two catch blocks show for an error that says timeout
TimeoutMessages ==
    {<<"Transaction", "timeout", ".", "Please", "check", "MetaMask", "and",
       "network", "status", ".">>,
     <<"Transaction", "timeout", "-", "the", "network", "might", "be",
       "slow", ".", "Please", "try", "again", ".">>}

(***************************************************************************)
(* C28: deposit and makeGuess of the hook return success only when the     *)
(* receipt of their transaction, with status 1, has arrived and decided    *)
(* the race before the 60-second timer fired; once decided the race is     *)
(* never decided again and what the call returned stays.  When the timer   *)
(* fires on an undecided race, 60 seconds or more after it was set, the    *)
(* call returns its failure (deposit false, makeGuess null), shows a       *)
(* timeout message and ends with isLoading false.                          *)
(***************************************************************************)
C28_TimeoutAfterSixtySeconds ==
    [][\A op \in ClientOps :
         LET c == calls[op]
             d == calls'[op]
         IN  /\ (Success(d) /\ ~Success(c))
                => /\ d.tx = "delivered" /\ d.status = 1
                   /\ d.race = "resolved"
             /\ (d.race = "resolved" /\ c.race # "resolved")
                => c.race = "pending" /\ ~c.fired /\ ~d.fired
             /\ c.race \in {"resolved", "rejected"} => d.race = c.race
             /\ c.result # "none" => d.result = c.result
             /\ (d.fired /\ ~c.fired)
                => /\ c.armed /\ c.elapsed >= 60
                   /\ c.race = "pending"
                      => /\ d.result = (IF op = "deposit" THEN "false"
                                        ELSE "null")
                         /\ d.pc = "returned"
                         /\ d.race = "rejected"
                         /\ error' \in TimeoutMessages
                         /\ isLoading' = FALSE]_vars

\* the guess was won and returned before its timer fired; the deposit then
\* timed out with its transaction still with the wallet, and the hook shows
\* the timeout message of deposit
C28_Witness ==
    /\ calls["makeGuess"].result = "value" /\ calls["makeGuess"].won
    /\ ~calls["makeGuess"].fired
    /\ calls["deposit"].result = "false" /\ calls["deposit"].fired
    /\ calls["deposit"].elapsed = 60
    /\ calls["deposit"].tx = "signing"
    /\ calls["deposit"].race = "rejected"
    /\ error = <<"Transaction", "timeout", ".", "Please", "check",
                 "MetaMask", "and", "network", "status", ".">>
    /\ isLoading = FALSE

(***************************************************************************)
(* C31: a successful fhevmDeposit with payment p credits the balance of    *)
(* the caller with floor(p / FhevmScale): the balance after is the balance *)
(* before plus that quotient modulo 2^EuintBits, and what was added, the   *)
(* balance after minus the balance before, is the quotient itself.         *)
(***************************************************************************)
C31_ScaledCredit ==
    [][\A p \in Principals :
         (Succeeded("fhevmDeposit") /\ outcome'.caller = p)
         => LET quotient == outcome'.value \div FhevmScale
                before == encryptedBalances[p].v
                after == encryptedBalances'[p].v
            IN  /\ after = (before + quotient) % (2 ^ EuintBits)
                /\ (after - before + (2 ^ EuintBits)) % (2 ^ EuintBits)
                     = quotient]_vars

(***************************************************************************)
(* C32: the card of a guess is the hash of the time, the entropy, the      *)
(* caller, the secret of the record and (confidential game) the sequence   *)
(* number of the block, and a correct guess leaves the secret as it was.   *)
(* So a guess of a principal in the block of its last guess of the same    *)
(* game draws the card of that guess; when that guess was correct the new  *)
(* one is a tie, is incorrect and ends the game.                           *)
(***************************************************************************)
C32_SameInstantSameCard ==
    [][\A p \in Principals :
         /\ (Succeeded("makeGuess") /\ outcome'.caller = p)
            => /\ outcome'.newCard
                    = guessCard(blockTimestamp, blockPrevrandao, p,
                                games[p].gameSecret, blockNumber)
               /\ outcome'.correct
                    => games'[p].gameSecret = games[p].gameSecret
               /\ (draws[p]["makeGuess"][1].correct
                   /\ draws[p]["makeGuess"][1].at = blockNumber)
                    => /\ outcome'.newCard = draws[p]["makeGuess"][1].card
                       /\ outcome'.newCard = games[p].currentCard
                       /\ ~outcome'.correct
                       /\ ~games'[p].isActive
         /\ (Succeeded("simpleMakeGuess") /\ outcome'.caller = p)
            => /\ outcome'.newCard
                    = simpleGuessCard(blockTimestamp, blockPrevrandao, p,
                                      simpleGames[p].gameSecret)
               /\ outcome'.correct
                    => simpleGames'[p].gameSecret = simpleGames[p].gameSecret
               /\ (draws[p]["simpleMakeGuess"][1].correct
                   /\ draws[p]["simpleMakeGuess"][1].at = blockNumber)
                    => /\ outcome'.newCard
                            = draws[p]["simpleMakeGuess"][1].card
                       /\ outcome'.newCard = simpleGames[p].currentCard
                       /\ ~outcome'.correct
                       /\ ~simpleGames'[p].isActive]_vars

\* a principal guessed twice in one block of its confidential game: the
\* first guess was correct, the second drew the same card and ended the
\* game with the one point of the first
C32_Witness ==
    \E p \in Principals :
       LET last == draws[p]["makeGuess"][1]
           before == draws[p]["makeGuess"][2]
       IN  /\ outcome.op = "makeGuess" /\ outcome.caller = p
           /\ outcome.err = OK /\ ~outcome.correct
           /\ before.correct /\ ~last.correct
           /\ before.at = last.at /\ last.at = blockNumber
           /\ last.card = before.card /\ last.card = games[p].currentCard
           /\ ~games[p].isActive /\ games[p].score.v = 1

(***************************************************************************)
(* C33: a plaintext game started with wager w at balance B, with k correct *)
(* guesses so far and no deposit of the player since, leaves the balance   *)
(* at B - w + k * floor(15 * w / 10) while it is Active and when a wrong   *)
(* guess has ended it, and at B + k * floor(15 * w / 10) when cashOut has  *)
(* ended it; cashOut right after the start gives back B.                   *)
(***************************************************************************)
C33_GameAccounting ==
    \A p \in Principals :
       opened[p].clean
       => LET B == opened[p].balance
              w == simpleGames[p].wager
              k == simpleGames[p].score
              won == k * ((15 * w) \div 10)
          IN  /\ simpleGames[p].isActive <=> opened[p].ending = "none"
              /\ opened[p].ending \in {"none", "wrong guess"}
                   => simpleBalances[p] = B - w + won
              /\ opened[p].ending = "cashOut"
                   => simpleBalances[p] = B + won
              /\ (opened[p].ending = "cashOut" /\ k = 0)
                   => simpleBalances[p] = B

\* a game started with wager 2 at balance 2 and cashed out after one
\* correct guess: the balance is 2 + 3
C33_Witness ==
    \E p \in Principals :
       /\ opened[p].clean /\ opened[p].ending = "cashOut"
       /\ opened[p].balance = 2
       /\ simpleGames[p].wager = 2 /\ simpleGames[p].score = 1
       /\ simpleBalances[p] = 5
       /\ outcome.op = "simpleCashOut" /\ outcome.caller = p

\* the functions of the plaintext ledger and its game
PlaintextOps ==
    {"simpleDeposit", "simpleStartGame", "simpleMakeGuess", "simpleCashOut"}

(***************************************************************************)
(* C34: a plaintext operation, successful or not, changes no encrypted     *)
(* balance, score or flag, no grant and no confidential game record; a     *)
(* confidential operation, resetUserData included, changes no plaintext    *)
(* balance and no plaintext game record.  Neither start function looks at  *)
(* the game of the other variant: with an Active game of the other variant *)
(* it succeeds whenever its own preconditions hold.                        *)
(***************************************************************************)
C34_VariantsIndependent ==
    [][/\ (TxStep /\ outcome'.op \in PlaintextOps)
          => UNCHANGED <<encryptedBalances, encryptedScores, encryptedFlags,
                         allowed, games>>
       /\ (TxStep /\ outcome'.op \in ConfidentialOps)
          => UNCHANGED <<simpleBalances, simpleGames>>
       /\ \A p \in Principals :
             /\ (/\ TxStep /\ outcome'.op = "simpleStartGame"
                 /\ outcome'.caller = p
                 /\ games[p].isActive /\ ~simpleGames[p].isActive
                 /\ simpleBalances[p] >= outcome'.amount)
                => /\ outcome'.err = OK
                   /\ games'[p].isActive /\ simpleGames'[p].isActive
             /\ (/\ TxStep /\ outcome'.op = "startGame"
                 /\ outcome'.caller = p
                 /\ simpleGames[p].isActive /\ ~games[p].isActive
                 /\ hasDeposit[p] /\ outcome'.proofOK)
                => /\ outcome'.err = OK
                   /\ games'[p].isActive /\ simpleGames'[p].isActive]_vars

\* a principal started a plaintext game while its confidential game was
\* Active: it holds an Active record of each variant
C34_Witness ==
    \E p \in Principals :
       /\ outcome.op = "simpleStartGame" /\ outcome.err = OK
       /\ outcome.caller = p
       /\ games[p].isActive /\ games[p].player = p
       /\ simpleGames[p].isActive /\ simpleGames[p].player = p

\* what a start function fixes for the whole game
termsOf(game) ==
    <<game.player, game.wager, game.timestamp, game.gameSecret>>

(***************************************************************************)
(* C35: the player, the wager, the start timestamp and the secret of a     *)
(* game record change only by a successful start of that variant by that   *)
(* principal, which sets the wager it was given; makeGuess, correct or     *)
(* not, and cashOut leave them, in both variants, and a correct guess      *)
(* credits winnings computed from that wager.                              *)
(***************************************************************************)
C35_TermsFixedAtStart ==
    [][\A p \in Principals :
         /\ termsOf(games'[p]) # termsOf(games[p])
            => /\ Succeeded("startGame") /\ outcome'.caller = p
               /\ games'[p].player = p
               /\ games'[p].wager.v = outcome'.amount
               /\ games'[p].timestamp = blockTimestamp
         /\ termsOf(simpleGames'[p]) # termsOf(simpleGames[p])
            => /\ Succeeded("simpleStartGame") /\ outcome'.caller = p
               /\ simpleGames'[p].player = p
               /\ simpleGames'[p].wager = outcome'.amount
               /\ simpleGames'[p].timestamp = blockTimestamp
         /\ (TxStep /\ outcome'.op \in {"makeGuess", "cashOut",
                                        "simpleMakeGuess", "simpleCashOut"})
            => /\ termsOf(games'[p]) = termsOf(games[p])
               /\ termsOf(simpleGames'[p]) = termsOf(simpleGames[p])
         /\ (Succeeded("simpleMakeGuess") /\ outcome'.caller = p
             /\ outcome'.correct)
            => simpleBalances'[p]
                 = simpleBalances[p] + ((simpleGames'[p].wager * 15) \div 10)
         /\ (Succeeded("makeGuess") /\ outcome'.caller = p
             /\ outcome'.correct)
            => encryptedBalances'[p].v
                 = (encryptedBalances[p].v + ((games'[p].wager.v * 2)
                       % (2 ^ EuintBits))) % (2 ^ EuintBits)]_vars

\* a confidential game started with wager 1, cashed out after a correct
\* guess: the record still has the player, the wager, the timestamp and the
\* secret of its start
C35_Witness ==
    \E p \in Principals :
       /\ outcome.op = "cashOut" /\ outcome.err = OK /\ outcome.caller = p
       /\ ~games[p].isActive /\ games[p].score.v = 1
       /\ games[p].player = p /\ games[p].wager.v = 1
       /\ games[p].timestamp = 1
       /\ \E r \in Randaos :
             games[p].gameSecret
               = secretOf(1, p, startCard(1, r, p, 1))

\* the three deposit functions
DepositOps == {"depositEncrypted", "fhevmDeposit", "simpleDeposit"}

(***************************************************************************)
(* C36: hasDeposit of a principal becomes true by its own successful       *)
(* depositEncrypted, fhevmDeposit or simpleDeposit or by a successful      *)
(* transferEncrypted that names it as recipient, and each of these leaves  *)
(* it true; it becomes false by the resetUserData of the principal and by  *)
(* nothing else.  With hasDeposit true, however it became so,              *)
(* transferEncrypted, incrementScore and startGame are never refused for   *)
(* want of a deposit.                                                      *)
(***************************************************************************)
C36_OneDepositFlag ==
    [][\A p \in Principals :
         /\ (~hasDeposit[p] /\ hasDeposit'[p])
            => /\ TxStep /\ outcome'.err = OK
               /\ \/ outcome'.op \in DepositOps /\ outcome'.caller = p
                  \/ outcome'.op = "transferEncrypted" /\ outcome'.to = p
         /\ (/\ TxStep /\ outcome'.err = OK
             /\ \/ outcome'.op \in DepositOps /\ outcome'.caller = p
                \/ outcome'.op = "transferEncrypted" /\ outcome'.to = p)
            => hasDeposit'[p]
         /\ (hasDeposit[p] /\ ~hasDeposit'[p])
            => Succeeded("resetUserData") /\ outcome'.caller = p
         /\ (Succeeded("resetUserData") /\ outcome'.caller = p)
            => ~hasDeposit'[p]
         /\ (/\ TxStep /\ outcome'.caller = p /\ hasDeposit[p]
             /\ outcome'.op \in {"transferEncrypted", "incrementScore",
                                 "startGame"})
            => outcome'.err \notin {NoDepositOnRecord, MustHaveDepositFirst}
         /\ (/\ TxStep /\ outcome'.caller = p /\ hasDeposit[p]
             /\ outcome'.op = "incrementScore")
            => outcome'.err = OK]_vars

\* incrementScore succeeded for a principal whose only deposit is a
\* plaintext one: it has a plaintext balance and no encrypted balance
C36_Witness ==
    \E p \in Principals :
       /\ outcome.op = "incrementScore" /\ outcome.err = OK
       /\ outcome.caller = p
       /\ hasDeposit[p]
       /\ simpleBalances[p] > 0
       /\ encryptedBalances[p] = NoHandle
       /\ encryptedScores[p].v = 1

(***************************************************************************)
(* The hook useWallet.  connectWallet asks the wallet for its accounts and *)
(* then the provider for the balance, and races both against a timer;      *)
(* cancelConnection aborts the controller the hook holds.  Every call of   *)
(* connectWallet has its own controller and its own timer, and all calls   *)
(* write the same state of the hook.                                       *)
(***************************************************************************)
\* setTimeout(..., 20000) of the connection, in seconds
ConnectionTimeoutSeconds == 20

\* setTimeout(..., 10000) of the balance request, in seconds
BalanceTimeoutSeconds == 10

\* the clock of the browser is looked at every WalletTickSeconds
WalletTickSeconds == 10

\* everything the hook useWallet does not write
besideWallet == <<chainVars, clientVars, component, handlers>>

\* window.ethereum is missing
NotInstalled ==
    Error(<<"MetaMask", "not", "installed", ".", "Please", "install",
            "MetaMask", "extension", ".">>)

\* the error the connection timer rejects with
ConnectionTimeout ==
    Error(<<"Connection", "timeout", ".", "Please", "check", "MetaMask",
            "and", "try", "again", ".">>)

\* the connection found its controller aborted
ConnectionCancelled == Error(<<"Connection", "cancelled">>)

\* the race was won by a connection whose controller is aborted
ConnectionWasCancelled == Error(<<"Connection", "was", "cancelled">>)

\* the wallet has no account to give
NoAccountsFound ==
    Error(<<"No", "accounts", "found", ".", "Please", "unlock", "MetaMask",
            ".">>)

\* the user closed the request of the wallet
RequestRejected ==
    [code |-> "4001", reason |-> <<>>,
     message |-> <<"User", "rejected", "the", "request", ".">>]

\* the wallet has a request open already
RequestPending ==
    [code |-> "-32002", reason |-> <<>>,
     message |-> <<"Request", "already", "pending">>]

\* the message the catch block of connectWallet shows
connectErrorMessage(err) ==
    IF \/ Includes(err.message, <<"timeout">>)
       \/ Includes(err.message, <<"cancelled">>)
    THEN <<"Connection", "timeout", ".", "Please", "check", "MetaMask", "is",
           "unlocked", "and", "try", "again", ".">>
    ELSE IF \/ err.code = "4001"
            \/ Includes(err.message, <<"rejected">>)
            \/ Includes(err.message, <<"denied">>)
    THEN <<"Connection", "rejected", ".", "Please", "approve", "the",
           "connection", "in", "MetaMask", ".">>
    ELSE IF Includes(err.message, <<"MetaMask", "not", "installed">>)
    THEN <<"MetaMask", "not", "installed", ".", "Please", "install", "the",
           "MetaMask", "browser", "extension", ".">>
    ELSE IF Includes(err.message, <<"No", "accounts", "found">>)
    THEN <<"No", "accounts", "found", ".", "Please", "unlock", "MetaMask",
           "and", "create", "an", "account", ".">>
    ELSE IF err.code = "-32002"
    THEN <<"MetaMask", "is", "busy", ".", "Please", "check", "MetaMask",
           "and", "try", "again", ".">>
    ELSE IF \/ Includes(err.message, <<"Network", "Error">>)
            \/ Includes(err.message, <<"network">>)
    THEN <<"Network", "error", ".", "Please", "check", "your", "internet",
           "connection", ".">>
    ELSE IF err.message # <<>> THEN err.message
    ELSE <<"Unknown", "wallet", "error", "occurred", ".", "Please", "try",
           "again", ".">>

\* setError('Connection cancelled by user')
CancelledByUser == <<"Connection", "cancelled", "by", "user">>

\* the first lines of connectWallet: the hook loads and holds controller a
started(w, a) ==
    [w EXCEPT !.isLoading = TRUE, !.error = NoError, !.abortController = a]

\* catch and finally of connectWallet
afterCatch(w, err) ==
    [w EXCEPT !.error = connectErrorMessage(err), !.isLoading = FALSE,
              !.abortController = 0]

\* the last lines of the try block of connectWallet, and finally
afterConnect(w, account, wei) ==
    [w EXCEPT !.isConnected = TRUE, !.address = account, !.balance = wei,
              !.isLoading = FALSE, !.abortController = 0]

\* the connection of call a throws: the race, if still open, is lost
rejects(a, err) ==
    LET at == attempts[a]
    IN  /\ attempts' = [attempts EXCEPT ![a] =
                          [at EXCEPT !.stage = "thrown",
                                     !.race = IF at.race = "pending"
                                              THEN "failed" ELSE @]]
        /\ wallet' = IF at.race = "pending" THEN afterCatch(wallet, err)
                     ELSE wallet

\* resolves without the look at the controller after the race
resolves_NoAbortCheck(a, wei) ==
    LET at == attempts[a]
        open == at.race = "pending"
    IN  /\ attempts' = [attempts EXCEPT ![a] =
                          [at EXCEPT !.stage = "returned",
                                     !.race = IF ~open THEN @
                                              ELSE "connected"]]
        /\ wallet' = IF ~open THEN wallet
                     ELSE afterConnect(wallet, at.account, wei)

\* the connection of call a returns the account and a balance: the race, if
\* still open, is won, and the controller is looked at once more
resolves(a, wei) ==
    LET at == attempts[a]
        open == at.race = "pending"
    IN  /\ attempts' = [attempts EXCEPT ![a] =
                          [at EXCEPT !.stage = "returned",
                                     !.race = IF ~open THEN @
                                              ELSE IF at.aborted THEN "failed"
                                              ELSE "connected"]]
        /\ wallet' = IF ~open THEN wallet
                     ELSE IF at.aborted
                     THEN afterCatch(wallet, ConnectionWasCancelled)
                     ELSE afterConnect(wallet, at.account, wei)

\* connectWallet is called: up to the await of the race
connectWallet ==
    \E a \in Attempts :
       /\ attempts[a].stage = "none"
       /\ \A b \in Attempts : b < a => attempts[b].stage # "none"
       /\ \E installed \in BOOLEAN :
             IF installed
             THEN /\ wallet' = started(wallet, a)
                  /\ attempts' = [attempts EXCEPT ![a] =
                                    [NoAttempt EXCEPT !.stage = "accounts",
                                                      !.race = "pending",
                                                      !.timer = "armed"]]
             ELSE /\ wallet' = afterCatch(started(wallet, a), NotInstalled)
                  /\ attempts' = [attempts EXCEPT ![a] =
                                    [NoAttempt EXCEPT !.stage = "no wallet",
                                                      !.race = "failed"]]
       /\ UNCHANGED besideWallet

\* eth_requestAccounts of call a returns
accountsArrive(a) ==
    /\ attempts[a].stage = "accounts"
    /\ \E accounts \in {<<>>, <<address>>} :
          IF attempts[a].aborted THEN rejects(a, ConnectionCancelled)
          ELSE IF Len(accounts) = 0 THEN rejects(a, NoAccountsFound)
          ELSE /\ attempts' = [attempts EXCEPT ![a].stage = "balance",
                                               ![a].account = accounts[1]]
               /\ UNCHANGED wallet
    /\ UNCHANGED besideWallet

\* eth_requestAccounts of call a is refused by the wallet
requestFails(a) ==
    /\ attempts[a].stage = "accounts"
    /\ \E err \in {RequestRejected, RequestPending} : rejects(a, err)
    /\ UNCHANGED besideWallet

\* getBalance of call a returns
balanceArrives(a) ==
    /\ attempts[a].stage = "balance"
    /\ \E wei \in WalletBalances : resolves(a, wei)
    /\ UNCHANGED besideWallet

\* the import of ethers or getBalance of call a throws: the balance is '0'
balanceFails(a) ==
    /\ attempts[a].stage = "balance"
    /\ resolves(a, 0)
    /\ UNCHANGED besideWallet

\* the timer of the balance request of call a fires: the balance is '0'
balanceTimeout(a) ==
    /\ attempts[a].stage = "balance"
    /\ attempts[a].waited >= BalanceTimeoutSeconds
    /\ resolves(a, 0)
    /\ UNCHANGED besideWallet

\* the connection timer of call a fires: it aborts the controller and rejects
connectionTimeout(a) ==
    LET at == attempts[a]
    IN  /\ at.timer = "armed"
        /\ at.elapsed >= ConnectionTimeoutSeconds
        /\ attempts' = [attempts EXCEPT ![a] =
                          [at EXCEPT !.timer = "fired", !.aborted = TRUE,
                                     !.race = IF at.race = "pending"
                                              THEN "failed" ELSE @]]
        /\ wallet' = IF at.race = "pending"
                     THEN afterCatch(wallet, ConnectionTimeout)
                     ELSE wallet
        /\ UNCHANGED besideWallet

\* cancelConnection: the controller the hook holds is aborted, which clears
\* the connection timer of its call
cancelConnection ==
    LET a == wallet.abortController
    IN  /\ a # 0
        /\ attempts' = [attempts EXCEPT ![a] =
                          [@ EXCEPT !.aborted = TRUE, !.cancelled = TRUE,
                                    !.timer = IF @ = "armed" THEN "cleared"
                                              ELSE @]]
        /\ wallet' = [wallet EXCEPT !.abortController = 0,
                                    !.isLoading = FALSE,
                                    !.error = CancelledByUser]
        /\ UNCHANGED besideWallet

\* disconnectWallet
disconnectWallet ==
    /\ wallet' = [wallet EXCEPT !.isConnected = FALSE, !.address = 0,
                                !.balance = 0, !.error = NoError]
    /\ UNCHANGED <<attempts, besideWallet>>

\* time passes for the timers that are set; a timer that is due fires
\* before more time passes
WalletTick ==
    LET running(a) == attempts[a].timer = "armed"
        waiting(a) == attempts[a].stage = "balance"
    IN  /\ \E a \in Attempts : running(a) \/ waiting(a)
        /\ \A a \in Attempts :
              /\ running(a) => attempts[a].elapsed < ConnectionTimeoutSeconds
              /\ waiting(a) => attempts[a].waited < BalanceTimeoutSeconds
        /\ attempts' = [a \in Attempts |->
                          [attempts[a] EXCEPT
                             !.elapsed = IF running(a) THEN @ + WalletTickSeconds
                                         ELSE @,
                             !.waited = IF waiting(a) THEN @ + WalletTickSeconds
                                        ELSE @]]
        /\ UNCHANGED <<wallet, besideWallet>>

NextWallet ==
    \/ connectWallet
    \/ cancelConnection
    \/ disconnectWallet
    \/ \E a \in Attempts : accountsArrive(a)
    \/ \E a \in Attempts : requestFails(a)
    \/ \E a \in Attempts : balanceArrives(a)
    \/ \E a \in Attempts : balanceFails(a)
    \/ \E a \in Attempts : balanceTimeout(a)
    \/ \E a \in Attempts : connectionTimeout(a)
    \/ WalletTick

SpecWallet == Init /\ [][NextWallet]_vars

\* the clock of the browser runs and a timer that is due fires; the wallet
\* and the provider are free never to answer
WalletFairness ==
    /\ WF_vars(WalletTick)
    /\ \A a \in Attempts : WF_vars(connectionTimeout(a))
    /\ \A a \in Attempts : WF_vars(balanceTimeout(a))

SpecWalletFair == SpecWallet /\ WalletFairness

\* C37: a call of connectWallet that cancelConnection has cancelled never
\* connects the wallet: whatever it does from then on (the account request
\* or the balance request returning, a timer firing), it does not end as
\* connected and it leaves isConnected and address as they are.
C37_CancelledNeverConnects ==
    [][\A a \in Attempts :
          attempts'[a].cancelled
          => /\ attempts'[a].race # "connected"
             /\ attempts'[a] # attempts[a]
                => /\ wallet'.isConnected = wallet.isConnected
                   /\ wallet'.address = wallet.address]_vars

\* a call was cancelled after the wallet had given its account, its
\* connection has returned since, and the wallet is not connected
C37_Witness ==
    \E a \in Attempts :
       /\ attempts[a].cancelled
       /\ attempts[a].stage = "returned"
       /\ attempts[a].account = address
       /\ ~wallet.isConnected
       /\ wallet.address = 0

\* the call a of connectWallet has returned: its race was settled and catch
\* or the end of the try block, and finally, have run
Finished(a) == attempts[a].race \in {"connected", "failed"}

\* the hook is at rest: connected or showing an error, not loading and
\* holding no controller
Settled ==
    /\ wallet.isConnected \/ wallet.error # NoError
    /\ ~wallet.isLoading
    /\ wallet.abortController = 0

\* C38: every call of connectWallet finishes in the end, whether or not the
\* wallet answers, whether or not calls are cancelled or overlap; the step
\* that finishes it leaves the hook connected or with an error, not loading
\* and without a controller; and no call is still open once its connection
\* timer has fired.
C38_EveryAttemptFinishes ==
    /\ \A a \in Attempts : (attempts[a].race = "pending") ~> Finished(a)
    /\ [][\A a \in Attempts : (~Finished(a) /\ Finished(a)') => Settled']_vars
    /\ [](\A a \in Attempts :
             attempts[a].race = "pending" => attempts[a].timer # "fired")

\* the wallet answered neither call: the first was cancelled, which cleared
\* its timer, and is open for good; the second was started after it and
\* finished by its connection timer
C38_Witness ==
    \E a, b \in Attempts :
       /\ a < b
       /\ attempts[a].cancelled /\ attempts[a].stage = "accounts"
       /\ attempts[a].race = "pending" /\ attempts[a].timer = "cleared"
       /\ attempts[b].timer = "fired" /\ attempts[b].stage = "accounts"
       /\ attempts[b].race = "failed"
       /\ Settled

(***************************************************************************)
(* The component HigherLowerGame.  Its handlers startGame, makeGuess and   *)
(* cashOut call the functions it is given (onStartGame, onMakeGuess,       *)
(* onCashOut) and write the state of the component when these return; a    *)
(* guess that returned a card shows it for two seconds first.  What the    *)
(* functions return is the choice of the caller of the component.          *)
(***************************************************************************)
\* setTimeout(..., 2000) of the result, in seconds
ResultDelaySeconds == 2

\* the clock of the browser is looked at every DelayTickSeconds
DelayTickSeconds == 1

\* everything the component does not write
besideComponent == <<chainVars, clientVars, wallet, attempts>>

\* the first call of a handler that has not been made yet
firstFree(made) ==
    CHOOSE i \in DOMAIN made :
       /\ made[i]
       /\ \A j \in DOMAIN made : j < i => ~made[j]

\* guesses that are awaited or shown when a game is started or cashed out
interruptedBy(guess) ==
    [g \in Guesses |->
       IF guess[g].pc \in {"awaiting", "delay"}
       THEN [guess[g] EXCEPT !.interrupted = TRUE]
       ELSE guess[g]]

\* startGame of the component is clicked: up to the await of onStartGame
componentStartGame ==
    /\ component.gameState = "waiting"
    /\ \E s \in Starts : handlers.start[s] = "none"
    /\ \E funded, isConnected \in BOOLEAN :
          IF funded /\ isConnected
          THEN LET s == firstFree([i \in Starts |->
                                     handlers.start[i] = "none"])
               IN  handlers' = [handlers EXCEPT !.start[s] = "awaiting"]
          ELSE UNCHANGED handlers
    /\ UNCHANGED <<component, besideComponent>>

\* onStartGame of call s returns a game or null, or throws
startReturns(s) ==
    /\ handlers.start[s] = "awaiting"
    /\ \E answered \in BOOLEAN, startingCard \in ShownCards :
          IF answered
          THEN /\ component' = [component EXCEPT !.gameState = "playing",
                                                 !.gameId = 1,
                                                 !.currentCard = startingCard,
                                                 !.score = 0,
                                                 !.streak = 0,
                                                 !.showResult = FALSE]
               /\ handlers' = [handlers EXCEPT
                                 !.start[s] = "done",
                                 !.guess = interruptedBy(handlers.guess)]
          ELSE /\ handlers' = [handlers EXCEPT !.start[s] = "done"]
               /\ UNCHANGED component
    /\ UNCHANGED besideComponent

\* makeGuess of the component without the look at gameLoading
componentMakeGuess_NoLoadingCheck ==
    /\ \E g \in Guesses : handlers.guess[g].pc = "none"
    /\ \E isHigher \in BOOLEAN :
          IF \/ component.gameState # "playing"
             \/ component.gameId = 0
          THEN UNCHANGED <<component, handlers>>
          ELSE LET g == firstFree([i \in Guesses |->
                                     handlers.guess[i].pc = "none"])
               IN  /\ component' =
                         [component EXCEPT
                            !.gameLoading = TRUE,
                            !.lastGuess = IF isHigher THEN "higher"
                                          ELSE "lower"]
                   /\ handlers' =
                         [handlers EXCEPT
                            !.guess[g] = [NoGuess EXCEPT
                                            !.pc = "awaiting",
                                            !.score = component.score]]
    /\ UNCHANGED besideComponent

\* makeGuess of the component is called: up to the await of onMakeGuess
componentMakeGuess ==
    /\ \E g \in Guesses : handlers.guess[g].pc = "none"
    /\ \E isHigher \in BOOLEAN :
          IF \/ component.gameState # "playing"
             \/ component.gameLoading
             \/ component.gameId = 0
          THEN UNCHANGED <<component, handlers>>
          ELSE LET g == firstFree([i \in Guesses |->
                                     handlers.guess[i].pc = "none"])
               IN  /\ component' =
                         [component EXCEPT
                            !.gameLoading = TRUE,
                            !.lastGuess = IF isHigher THEN "higher"
                                          ELSE "lower"]
                   /\ handlers' =
                         [handlers EXCEPT
                            !.guess[g] = [NoGuess EXCEPT
                                            !.pc = "awaiting",
                                            !.score = component.score]]
    /\ UNCHANGED besideComponent

\* onMakeGuess of call g returns a result: the card is shown and the timer
\* of the result is set
guessReturns(g) ==
    /\ handlers.guess[g].pc = "awaiting"
    /\ \E correct \in BOOLEAN, newCard \in ShownCards :
          /\ component' = [component EXCEPT
                             !.nextCard = newCard,
                             !.showResult = TRUE,
                             !.score = IF correct THEN @ + 1 ELSE @,
                             !.streak = IF correct THEN @ + 1 ELSE @]
          /\ handlers' = [handlers EXCEPT
                            !.guess[g] = [@ EXCEPT !.pc = "delay",
                                                   !.correct = correct,
                                                   !.newCard = newCard]]
    /\ UNCHANGED besideComponent

\* onMakeGuess of call g returns null or throws
guessFails(g) ==
    /\ handlers.guess[g].pc = "awaiting"
    /\ component' = [component EXCEPT !.gameLoading = FALSE,
                                      !.lastGuess = "null"]
    /\ handlers' = [handlers EXCEPT !.guess[g].pc = "done"]
    /\ UNCHANGED besideComponent

\* the timer of the result of call g fires
delayEnds(g) ==
    LET call == handlers.guess[g]
    IN  /\ call.pc = "delay"
        /\ call.elapsed >= ResultDelaySeconds
        /\ component' =
              IF call.correct
              THEN [component EXCEPT !.currentCard = call.newCard,
                                     !.showResult = FALSE,
                                     !.nextCard = 0,
                                     !.gameLoading = FALSE]
              ELSE [component EXCEPT !.gameState = "waiting",
                                     !.gameId = 0,
                                     !.showResult = FALSE,
                                     !.nextCard = 0,
                                     !.gameLoading = FALSE]
        /\ handlers' = [handlers EXCEPT !.guess[g].pc = "done"]
        /\ UNCHANGED besideComponent

\* Cash Out is clicked, which is shown while playing with a score: up to
\* the await of onCashOut
componentCashOut ==
    /\ component.gameState = "playing" /\ component.score > 0
    /\ component.gameId # 0
    /\ \E c \in CashOuts : handlers.cashOut[c] = "none"
    /\ LET c == firstFree([i \in CashOuts |-> handlers.cashOut[i] = "none"])
       IN  handlers' = [handlers EXCEPT !.cashOut[c] = "awaiting"]
    /\ UNCHANGED <<component, besideComponent>>

\* onCashOut of call c returns true or false, or throws
cashOutReturns(c) ==
    /\ handlers.cashOut[c] = "awaiting"
    /\ \E success \in BOOLEAN :
          IF success
          THEN /\ component' = [component EXCEPT !.gameState = "waiting",
                                                 !.gameId = 0,
                                                 !.showResult = FALSE]
               /\ handlers' = [handlers EXCEPT
                                 !.cashOut[c] = "done",
                                 !.guess = interruptedBy(handlers.guess)]
          ELSE /\ handlers' = [handlers EXCEPT !.cashOut[c] = "done"]
               /\ UNCHANGED component
    /\ UNCHANGED besideComponent

\* time passes for the results that are shown; a timer that is due fires
\* before more time passes
DelayTick ==
    LET shown(g) == handlers.guess[g].pc = "delay"
    IN  /\ \E g \in Guesses : shown(g)
        /\ \A g \in Guesses :
              shown(g) => handlers.guess[g].elapsed < ResultDelaySeconds
        /\ handlers' = [handlers EXCEPT !.guess =
                          [g \in Guesses |->
                             IF shown(g)
                             THEN [handlers.guess[g] EXCEPT
                                     !.elapsed = @ + DelayTickSeconds]
                             ELSE handlers.guess[g]]]
        /\ UNCHANGED <<component, besideComponent>>

NextComponent ==
    \/ componentStartGame
    \/ \E s \in Starts : startReturns(s)
    \/ componentMakeGuess
    \/ \E g \in Guesses : guessReturns(g)
    \/ \E g \in Guesses : guessFails(g)
    \/ \E g \in Guesses : delayEnds(g)
    \/ componentCashOut
    \/ \E c \in CashOuts : cashOutReturns(c)
    \/ DelayTick

SpecComponent == Init /\ [][NextComponent]_vars

\* the call g of onMakeGuess has not returned, or its result is still shown
InFlight(g) == handlers.guess[g].pc \in {"awaiting", "delay"}

====
